---- MODULE Spec2Model ----
(***************************************************************************)
(* The Resistance / Avalon server: the rate-limited inference client       *)
(* (backend/src/azureLLMClient.ts), the per-seat decision engine           *)
(* (backend/src/llmAIAgent.ts) and the game session                        *)
(* (backend/src/lobby.ts, common/src/game/reducers.ts).                    *)
(***************************************************************************)
EXTENDS Integers, Sequences, FiniteSets, TLC

(***************************************************************************)
(* Bounds of the model and program constants.                              *)
(***************************************************************************)
\* configuration of the client under verification (config.requestsPerMinute)
RequestsPerMinute == 2
\* config.retries: the loop bound this.maxRetries
MaxRetries == 2
\* how many times the clock is advanced
MaxAdvance == 2
\* the sliding window, in seconds (60000 ms)
Window == 60
\* the history that is kept, in seconds (3600000 ms)
HistoryKeep == 3600
RequestsPerDay == 10000
TokensPerMinute == 60000
\* canMakeRequest's default estimatedTokens
EstimatedTokens == 100
\* this.retryDelay, in ms
RetryDelay == 1000
\* usage.total_tokens of a response (one representative value)
ResponseTokens == 50

\* seats of the session (the program seats 5 to 10)
NumSeats == 3
\* seats of a roster whose views are computed
RosterSize == 4
\* LLMAIAgent keeps its last 1000 usage records and reports the last 100 of
\* them; AIAgentManager keeps 10000 records of removed agents.  Scaled.
UsageLogKeep == 3
UsageLogShared == 2
maxGlobalLogSize == 4
\* the agents of the manager
NumAgents == 2
\* the calendar days that pass and the requests one client makes in them
MaxDays == 2
MaxDailyCalls == 3
\* the numbers a response of the model names at most
MaxNamed == 4
\* the model configurations of a manager and the agents it creates
MaxModels == 4
MaxCreated == 6
\* the largest config.retries a client is constructed with
MaxConfiguredRetries == 6
MaxHistory == 1
\* the ticks a phase lasts before its default resolution
PhaseTicks == 4
\* the per-turn speaking budget, in ticks (the program: 10 seconds)
TurnSeconds == 4
\* missions one side must win (the program: 3 of 5)
MissionsToWin == 1
\* consecutive rejected proposals after which evil wins
MaxRejections == 1
\* the chat log is followed up to this length
MaxChat == 1
\* config.maxErrors of the agent under verification
MaxErrors == 2
\* this.responseDelay (2000 ms), in ticks of 1000 ms
ResponseDelay == 2
\* the turn time an agent leaves for the call: (timeRemaining - 3) * 1000
ChatLead == 3

\* the clock moves in steps of half a window, so that an entry is seen at
\* ages 0, 30, 60 (just expired), 90, ...
ClockStep == Window \div 2
\* how many makeRequest invocations may be in progress at once
MaxInFlight == 2
\* how many makeRequest invocations are made in all
MaxCalls == 3
Calls == 1..MaxInFlight

VARIABLES
  now,                \* Date.now(), in seconds
  requestHistory,     \* AzureLLMClient.requestHistory: timestamps of successes
  dailyRequestCount,  \* AzureLLMClient.dailyRequestCount
  dailyTokenCount,    \* AzureLLMClient.dailyTokenCount
  calls,              \* the makeRequest invocations in progress, by slot
  lastDone,           \* the makeRequest invocation that returned or threw last
  callsStarted,       \* how many makeRequest invocations were made so far
  game,               \* Game.store: the GameState
  timer,              \* Game.timeout: whether the tick interval is running
  last,               \* the input the session handled last, and what it did
  agent,              \* LLMAIAgent: errorCount, useFallbackOnly, lastSpeakingTurnIndex
  tasks,              \* the handleAction invocations in progress, by slot
  lastDecision,       \* the decision that ended last, since the last tick
  emitted             \* the decisions emitted in the phase instance emitted in last

clientVars ==
  <<now, requestHistory, dailyRequestCount, dailyTokenCount, calls, lastDone,
    callsStarted>>
gameVars == <<game, timer, last>>
agentVars == <<agent, tasks, lastDecision, emitted>>
vars ==
  <<now, requestHistory, dailyRequestCount, dailyTokenCount, calls, lastDone,
    callsStarted, game, timer, last, agent, tasks, lastDecision, emitted>>

(***************************************************************************)
(* AzureLLMClient                                                          *)
(***************************************************************************)
\* what the endpoint can answer to one axios.post
Responses ==
  {"ok", "malformed", "401", "403", "404", "400", "429", "500", "418", "noresponse"}

\* a makeRequest invocation: where it stands, the loop variable, the number of
\* axios.post calls it made, the last response it got and the length (ms) of
\* the sleep that followed it
IdleCall ==
  [st |-> "idle", attempt |-> 0, posts |-> 0, delay |-> 0, resp |-> "none"]

\* what is kept of an invocation that is over
NoResult == [st |-> "none", posts |-> 0, err |-> "none", resp |-> "none"]

\* requestHistory.filter(req => Date.now() - req.timestamp < 60000)
RecentRequests(hist, t) == SelectSeq(hist, LAMBDA ts : t - ts < Window)

\* canMakeRequest: "allowed" or the reason of the refusal
canMakeRequest(hist, dreq, dtok, t) ==
  IF dreq >= RequestsPerDay THEN "Daily request limit exceeded"
  ELSE IF dtok + EstimatedTokens > TokensPerMinute * 60 * 24
    THEN "Daily token limit exceeded"
  ELSE IF Len(RecentRequests(hist, t)) >= RequestsPerMinute
    THEN "Rate limit: too many requests per minute"
  ELSE "allowed"

\* the statuses the catch block retries after a sleep, and the sleep's length
RetryDelayFor(r, attempt) ==
  IF r = "429" THEN RetryDelay * (attempt + 1) * 2
  ELSE RetryDelay * (attempt + 1)

\* thrown validation errors are plain Errors: they reach the end of the catch
\* block, which sleeps and lets the loop go on
IsRetried(r) == r \in {"429", "500", "malformed"}

\* a loop bound that is off by two: attempt <= maxRetries
RetriesLeftInclusive(attempt) == attempt < MaxRetries + 1

\* whether the catch block goes round the loop again
RetriesLeft(attempt) == attempt < MaxRetries - 1

\* the message of the Error makeRequest throws for a response
ErrorFor(r) ==
  CASE r \in {"401", "403"} -> "Authentication error"
    [] r = "404" -> "Azure endpoint not found (404)"
    [] r = "400" -> "Bad request (400)"
    [] r = "429" -> "Rate limit exceeded (429)"
    [] r = "500" -> "Server error"
    [] r = "418" -> "HTTP error"
    [] r = "noresponse" -> "Network error"
    [] r = "malformed" -> "Request failed after attempts: Invalid response"

\* makeRequest up to its first axios.post
CallStarted(c, hist, dreq, dtok, t) ==
  LET check == canMakeRequest(hist, dreq, dtok, t) IN
  IF check # "allowed"
    THEN [c EXCEPT !.st = "error", !.resp = check]
    ELSE [c EXCEPT !.st = "http", !.attempt = 0, !.posts = 1]

\* the call after the response r to its outstanding axios.post
CallAnswered(c, r) ==
  IF r = "ok" THEN [c EXCEPT !.st = "ok", !.resp = r]
  ELSE IF IsRetried(r) /\ RetriesLeft(c.attempt)
    THEN [c EXCEPT !.st = "sleep", !.resp = r,
                   !.delay = RetryDelayFor(r, c.attempt)]
  ELSE [c EXCEPT !.st = "error", !.resp = r]

\* requestHistory after a success: push, then keep the last hour
HistoryAfterSuccess(hist, t) ==
  SelectSeq(Append(hist, t), LAMBDA ts : t - ts < HistoryKeep)

\* a call is over once it returned ("ok") or threw ("error")
IsDone(c) == c.st \in {"ok", "error"}

\* the outcome of a finished call: what it returned or the Error it threw
ResultOf(c) ==
  [st |-> c.st, posts |-> c.posts, resp |-> c.resp,
   err |-> IF c.st = "ok" THEN "none"
           ELSE IF c.posts = 0 THEN "Rate limit exceeded: " \o c.resp
           ELSE ErrorFor(c.resp)]

\* the slots after slot i's call moved to c: a finished call frees its slot
CallsAfter(i, c) == [calls EXCEPT ![i] = IF IsDone(c) THEN IdleCall ELSE c]

\* makeRequest is called: the quota check and, if it passes, the first post
MakeRequestStep(i) ==
  /\ calls[i].st = "idle"
  /\ \A j \in Calls : j < i => calls[j].st # "idle"
  /\ callsStarted < MaxCalls
  /\ callsStarted' = callsStarted + 1
  /\ LET c == CallStarted(calls[i], requestHistory, dailyRequestCount,
                           dailyTokenCount, now) IN
       /\ calls' = CallsAfter(i, c)
       /\ lastDone' = IF IsDone(c) THEN ResultOf(c) ELSE lastDone
  /\ UNCHANGED <<now, requestHistory, dailyRequestCount, dailyTokenCount>>

MakeRequest(i) == MakeRequestStep(i) /\ UNCHANGED <<gameVars, agentVars>>

\* the endpoint answers the outstanding axios.post of slot i
HttpRespondStep(i, r) ==
  /\ calls[i].st = "http"
  /\ LET c == CallAnswered(calls[i], r) IN
       /\ calls' = CallsAfter(i, c)
       /\ lastDone' = IF IsDone(c) THEN ResultOf(c) ELSE lastDone
  /\ IF r = "ok"
       THEN /\ requestHistory' = HistoryAfterSuccess(requestHistory, now)
            /\ dailyRequestCount' = dailyRequestCount + 1
            /\ dailyTokenCount' = dailyTokenCount + ResponseTokens
       ELSE UNCHANGED <<requestHistory, dailyRequestCount, dailyTokenCount>>
  /\ UNCHANGED <<now, callsStarted>>

HttpRespond(i, r) == HttpRespondStep(i, r) /\ UNCHANGED <<gameVars, agentVars>>

\* the sleep before a retry ends: attempt++ and the next axios.post
BackoffDoneStep(i) ==
  /\ calls[i].st = "sleep"
  /\ calls' = [calls EXCEPT ![i].st = "http",
                            ![i].attempt = calls[i].attempt + 1,
                            ![i].posts = calls[i].posts + 1]
  /\ UNCHANGED <<now, requestHistory, dailyRequestCount, dailyTokenCount, lastDone,
                 callsStarted>>

BackoffDone(i) == BackoffDoneStep(i) /\ UNCHANGED <<gameVars, agentVars>>

\* time passes
AdvanceClockStep ==
  /\ now < MaxAdvance * ClockStep
  /\ now' = now + ClockStep
  /\ UNCHANGED <<requestHistory, dailyRequestCount, dailyTokenCount, calls, lastDone,
                 callsStarted>>

AdvanceClock == AdvanceClockStep /\ UNCHANGED <<gameVars, agentVars>>

ClientInit ==
  /\ now = 0
  /\ requestHistory = <<>>
  /\ dailyRequestCount = 0
  /\ dailyTokenCount = 0
  /\ calls = [i \in Calls |-> IdleCall]
  /\ lastDone = NoResult
  /\ callsStarted = 0

\* the client on its own: no session runs
IdleGame ==
  /\ game = [phase |-> "none"]
  /\ timer = FALSE
  /\ last = [type |-> "none"]
  /\ agent = [errorCount |-> 0]
  /\ tasks = <<>>
  /\ lastDecision = [kind |-> "none"]
  /\ emitted = [count |-> 0]

ClientNext ==
  \/ \E i \in Calls : MakeRequest(i)
  \/ \E i \in Calls, r \in Responses : HttpRespond(i, r)
  \/ \E i \in Calls : BackoffDone(i)
  \/ AdvanceClock

ClientAloneInit ==
  /\ ClientInit
  /\ IdleGame

SpecClient == ClientAloneInit /\ [][ClientNext]_vars

(***************************************************************************)
(* The client with a log of the requests it sends: last is the sequence of *)
(* the times of its axios.post calls                                       *)
(***************************************************************************)
SentMakeRequest(i) ==
  /\ MakeRequestStep(i)
  /\ last' = IF calls'[i].st = "http" THEN Append(last, now) ELSE last
  /\ UNCHANGED <<game, timer, agentVars>>

SentHttpRespond(i, r) ==
  /\ HttpRespondStep(i, r)
  /\ UNCHANGED <<gameVars, agentVars>>

SentBackoffDone(i) ==
  /\ BackoffDoneStep(i)
  /\ last' = Append(last, now)
  /\ UNCHANGED <<game, timer, agentVars>>

SentAdvanceClock ==
  /\ AdvanceClockStep
  /\ UNCHANGED <<gameVars, agentVars>>

SentInit ==
  /\ ClientInit
  /\ game = [phase |-> "none"]
  /\ timer = FALSE
  /\ last = <<>>
  /\ agent = [errorCount |-> 0]
  /\ tasks = <<>>
  /\ lastDecision = [kind |-> "none"]
  /\ emitted = [count |-> 0]

SentNext ==
  \/ \E i \in Calls : SentMakeRequest(i)
  \/ \E i \in Calls, r \in Responses : SentHttpRespond(i, r)
  \/ \E i \in Calls : SentBackoffDone(i)
  \/ SentAdvanceClock

SpecSent == SentInit /\ [][SentNext]_vars

\* the requests sent in the window of Window seconds that starts at t
SentFrom(t) ==
  Cardinality({k \in 1..Len(last) : last[k] >= t /\ last[k] - t < Window})

\* C34: no rolling window of 60 seconds holds more than requestsPerMinute
\* axios.post calls of the client, whatever became of them: a first attempt
\* or a retry, answered or still in flight
C34_AtMostRSentPerWindow ==
  \A k \in 1..Len(last) : SentFrom(last[k]) <= RequestsPerMinute

(***************************************************************************)
(* The retry loop of one makeRequest invocation of a client constructed    *)
(* with config.retries = game.maxRetries, against an endpoint that keeps   *)
(* answering game.status.  last is the invocation: the loop variable, the  *)
(* sleeps it took so far (ms) and where it stands.                         *)
(***************************************************************************)
RetriedStatuses == {"429", "500", "malformed"}

\* the catch block sleeps and the loop goes round: attempt < maxRetries - 1
LoopRetry ==
  /\ last.st = "http"
  /\ last.attempt < game.maxRetries - 1
  /\ last' = [last EXCEPT !.attempt = @ + 1,
                          !.delays = Append(@, RetryDelayFor(game.status,
                                                             last.attempt))]
  /\ UNCHANGED <<clientVars, game, timer, agentVars>>

\* the catch block throws on the last attempt
LoopGiveUp ==
  /\ last.st = "http"
  /\ ~(last.attempt < game.maxRetries - 1)
  /\ last' = [last EXCEPT !.st = "error"]
  /\ UNCHANGED <<clientVars, game, timer, agentVars>>

\* the endpoint answers the attempt with a completion
LoopSucceed ==
  /\ last.st = "http"
  /\ last' = [last EXCEPT !.st = "ok"]
  /\ UNCHANGED <<clientVars, game, timer, agentVars>>

BackoffInit ==
  /\ ClientInit
  /\ \E n \in 1..MaxConfiguredRetries, r \in RetriedStatuses :
       game = [maxRetries |-> n, status |-> r]
  /\ timer = FALSE
  /\ last = [st |-> "http", attempt |-> 0, delays |-> <<>>]
  /\ agent = [errorCount |-> 0]
  /\ tasks = <<>>
  /\ lastDecision = [kind |-> "none"]
  /\ emitted = [count |-> 0]

BackoffNext ==
  \/ LoopRetry
  \/ LoopGiveUp
  \/ LoopSucceed

SpecBackoff == BackoffInit /\ [][BackoffNext]_vars

\* C24: the sleeps one call takes before its successive retries grow
\* exponentially: each is longer than the one before, by the same factor.
C24_DelaysGrowExponentially ==
  /\ \A k \in 1..(Len(last.delays) - 1) : last.delays[k + 1] > last.delays[k]
  /\ \A k \in 1..(Len(last.delays) - 2) :
       last.delays[k + 1] * last.delays[k + 1]
         = last.delays[k] * last.delays[k + 2]

(***************************************************************************)
(* The daily counters of one client over several calendar days.  Here game *)
(* is the client (the day new Date().toDateString() names, lastResetDate,  *)
(* the two counters, the requests posted and not yet answered, the calls   *)
(* made) and last is what happened since midnight or construction: the     *)
(* requests completed and the resets done.                                 *)
(***************************************************************************)
\* resetDailyCounts
resetDailyCounts(c) ==
  IF c.today # c.lastResetDate
    THEN [c EXCEPT !.dailyRequestCount = 0, !.dailyTokenCount = 0,
                   !.lastResetDate = c.today]
    ELSE c

Reset(c) == IF c.today # c.lastResetDate THEN 1 ELSE 0

\* makeRequest up to its axios.post: canMakeRequest resets the counters
\* first, then checks them
DailyMakeRequest ==
  /\ game.made < MaxDailyCalls
  /\ LET c == resetDailyCounts(game) IN
       game' = [c EXCEPT !.made = @ + 1,
                         !.posted =
                           IF canMakeRequest(<<>>, c.dailyRequestCount,
                                             c.dailyTokenCount, 0) = "allowed"
                             THEN @ + 1 ELSE @]
  /\ last' = [last EXCEPT !.resets = @ + Reset(game)]
  /\ UNCHANGED <<clientVars, timer, agentVars>>

\* the endpoint answers a posted request with a completion: the counters
\* are incremented as they stand
DailyRespondOk ==
  /\ game.posted > 0
  /\ game' = [game EXCEPT !.posted = @ - 1,
                          !.dailyRequestCount = @ + 1,
                          !.dailyTokenCount = @ + ResponseTokens]
  /\ last' = [last EXCEPT !.completed = @ + 1]
  /\ UNCHANGED <<clientVars, timer, agentVars>>

\* the request fails for good
DailyRespondError ==
  /\ game.posted > 0
  /\ game' = [game EXCEPT !.posted = @ - 1]
  /\ UNCHANGED <<clientVars, timer, last, agentVars>>

\* the 24 h interval of the constructor fires, or getUsageStats is called
DailyReset ==
  /\ game' = resetDailyCounts(game)
  /\ last' = [last EXCEPT !.resets = @ + Reset(game)]
  /\ UNCHANGED <<clientVars, timer, agentVars>>

\* midnight: toDateString() names the next day
Midnight ==
  /\ game.today < MaxDays
  /\ game' = [game EXCEPT !.today = @ + 1]
  /\ last' = [completed |-> 0, resets |-> 0]
  /\ UNCHANGED <<clientVars, timer, agentVars>>

DailyInit ==
  /\ ClientInit
  /\ game = [today |-> 0, lastResetDate |-> 0, dailyRequestCount |-> 0,
             dailyTokenCount |-> 0, posted |-> 0, made |-> 0]
  /\ timer = FALSE
  /\ last = [completed |-> 0, resets |-> 0]
  /\ agent = [errorCount |-> 0]
  /\ tasks = <<>>
  /\ lastDecision = [kind |-> "none"]
  /\ emitted = [count |-> 0]

DailyNext ==
  \/ DailyMakeRequest
  \/ DailyRespondOk
  \/ DailyRespondError
  \/ DailyReset
  \/ Midnight

SpecDaily == DailyInit /\ [][DailyNext]_vars

\* C26: the counters are reset once a day at most, and once the day's reset
\* is done they count the requests completed on that day: every request
\* completed since midnight, and their tokens.
C26_DailyCountersFollowTheDay ==
  /\ last.resets <= 1
  /\ game.lastResetDate = game.today
       => /\ game.dailyRequestCount = last.completed
          /\ game.dailyTokenCount = last.completed * ResponseTokens

(***************************************************************************)
(* The game state (common/src/game/types.ts) and its transition function.  *)
(* GameFunc (common/src/game/funcs.ts) is described by the specification:  *)
(* sections 4.2 and 4.3.                                                   *)
(***************************************************************************)
Seats == 0..(NumSeats - 1)
NoSeat == -1
\* the seat the autonomous player holds, and its connection
AgentSeat == 0
\* the connections of the room are numbered: seat p starts with connection
\* p + 1, one more connection holds no seat, and 0 stands for null
SocketOf(p) == p + 1
AgentSocket == SocketOf(AgentSeat)
Outsider == NumSeats + 1
NoSocket == 0
HumanSockets == {SocketOf(p) : p \in Seats \ {AgentSeat}}
\* player.roles, fixed for the session
RoleList == <<"assassin", "merlin", "loyal_servant", "percival", "loyal_servant">>
RoleOf(p) == RoleList[p + 1]

GamePhases ==
  {"role-reveal", "team-building", "team-building-review", "voting",
   "voting-review", "mission", "mission-review", "finished-assassinate",
   "finished"}

NoVotes == [p \in Seats |-> "none"]
NoTeam == [leader |-> NoSeat, members |-> {}, votes |-> NoVotes]
NoMission == [members |-> {}, actions |-> NoVotes]
NoTurn ==
  [currentSpeaker |-> NoSeat, timeRemaining |-> 0, turnOrder |-> <<>>,
   turnIndex |-> 0]

\* the player counts a session is started with
GameMinPlayers == 5
GameMaxPlayers == 10
PlayerCounts == GameMinPlayers..GameMaxPlayers
MissionNumbers == 1..5

\* the published table of the team sizes, by player count and mission
MissionTeamSize(n, m) ==
  CASE n = 5 -> <<2, 3, 2, 3, 3>>[m]
    [] n = 6 -> <<2, 3, 4, 3, 4>>[m]
    [] n = 7 -> <<2, 3, 3, 4, 4>>[m]
    [] OTHER -> <<3, 4, 4, 5, 5>>[m]

\* the fails that sink a mission: two on the fourth mission of a session of
\* seven players or more, one otherwise
MissionFailsRequired(n, m) == IF m = 4 /\ n >= 7 THEN 2 ELSE 1

\* the size of the team of a mission and the fails that sink it, in the
\* session of NumSeats seats
TeamSize(missionNo) == IF NumSeats < 3 THEN NumSeats ELSE 2
FailsRequired(missionNo) == MissionFailsRequired(NumSeats, missionNo)
\* a full round of speaking turns
TeamBuildingTicks == TurnSeconds * NumSeats

\* GameFunc.init: the state after construction
InitGame ==
  [socketIDs |-> [p \in Seats |-> SocketOf(p)],
   phase |-> "role-reveal", missionNo |-> 0, phaseCountdown |-> 1,
   team |-> NoTeam, mission |-> NoMission, winner |-> "null",
   chat |-> <<>>, assassinChoice |-> NoSeat, speakingTurn |-> NoTurn,
   successes |-> 0, fails |-> 0, rejections |-> 0, inst |-> 0]

IndexOf(g, sock) ==
  IF \E p \in Seats : g.socketIDs[p] = sock
    THEN CHOOSE p \in Seats : g.socketIDs[p] = sock
         /\ \A q \in Seats : g.socketIDs[q] = sock => p <= q
    ELSE NoSeat

Connected(g, p) == g.socketIDs[p] # NoSocket

\* round-robin over the connected seats
NextLeader(g, p) ==
  LET ks == {k \in 1..NumSeats : Connected(g, (p + k) % NumSeats)} IN
  IF ks = {} THEN (p + 1) % NumSeats
  ELSE (p + (CHOOSE k \in ks : \A j \in ks : k <= j)) % NumSeats

TurnOrderFrom(p) == [k \in 1..NumSeats |-> (p + k - 1) % NumSeats]

startSpeakingTurn(g, order) ==
  [g EXCEPT !.speakingTurn =
     [currentSpeaker |-> order[1], timeRemaining |-> TurnSeconds,
      turnOrder |-> order, turnIndex |-> 0]]

endSpeakingTurn(g) ==
  IF g.speakingTurn = NoTurn THEN g
  ELSE LET t == g.speakingTurn
           n == (t.turnIndex + 1) % Len(t.turnOrder) IN
       [g EXCEPT !.speakingTurn =
          [t EXCEPT !.turnIndex = n, !.currentSpeaker = t.turnOrder[n + 1],
                    !.timeRemaining = TurnSeconds]]

\* the chat keeps the sender's seat; the log is followed up to MaxChat entries
newChatMessage(g, player) ==
  [g EXCEPT !.chat = IF Len(@) < MaxChat THEN Append(@, player)
                     ELSE Append(Tail(@), player)]

Finish(g, w) ==
  [g EXCEPT !.phase = "finished", !.winner = w, !.phaseCountdown = 0,
            !.speakingTurn = NoTurn, !.inst = @ + 1]

StartTeamBuilding(g, leader, missionNo) ==
  startSpeakingTurn(
    [g EXCEPT !.phase = "team-building", !.phaseCountdown = TeamBuildingTicks,
              !.missionNo = missionNo, !.mission = NoMission,
              !.team = [leader |-> leader, members |-> {}, votes |-> NoVotes],
              !.inst = @ + 1],
    TurnOrderFrom(leader))

\* a proposal that was rejected or passed: the leadership rotates
ProposalFailed(g) ==
  IF g.rejections + 1 >= MaxRejections THEN Finish(g, "spy")
  ELSE StartTeamBuilding([g EXCEPT !.rejections = @ + 1],
                         NextLeader(g, g.team.leader), g.missionNo)

Accepted(g) ==
  2 * Cardinality({p \in Seats : g.team.votes[p] = "accept"})
    > Cardinality({p \in Seats : Connected(g, p)})

ResolveVotes(g) ==
  [g EXCEPT !.team.votes = [p \in Seats |-> IF @[p] = "none" THEN "accept" ELSE @[p]],
            !.phase = "voting-review", !.phaseCountdown = PhaseTicks,
            !.inst = @ + 1]

ResolveMission(g) ==
  [g EXCEPT !.mission.actions =
              [p \in Seats |-> IF p \in g.mission.members /\ @[p] = "none"
                               THEN "success" ELSE @[p]],
            !.phase = "mission-review", !.phaseCountdown = PhaseTicks,
            !.inst = @ + 1]

MissionFailed(g) ==
  Cardinality({p \in g.mission.members : g.mission.actions[p] = "fail"})
    >= FailsRequired(g.missionNo)

AfterMission(g) ==
  LET g1 == IF MissionFailed(g) THEN [g EXCEPT !.fails = @ + 1]
            ELSE [g EXCEPT !.successes = @ + 1] IN
  IF g1.fails >= MissionsToWin THEN Finish(g1, "spy")
  ELSE IF g1.successes >= MissionsToWin
    THEN IF \E p \in Seats : RoleOf(p) = "assassin"
           THEN [g1 EXCEPT !.phase = "finished-assassinate",
                           !.phaseCountdown = PhaseTicks, !.inst = @ + 1]
           ELSE Finish(g1, "agent")
  ELSE StartTeamBuilding([g1 EXCEPT !.rejections = 0],
                         NextLeader(g1, g1.team.leader), g1.missionNo + 1)

\* GameFunc.action.*: each is a no-op outside its phase
updateTeamMembers(g, members) ==
  IF g.phase = "team-building" /\ members \subseteq Seats
     /\ Cardinality(members) <= TeamSize(g.missionNo)
    THEN [g EXCEPT !.team.members = members]
    ELSE g

finishTeamBuilding(g) ==
  IF g.phase = "team-building"
     /\ Cardinality(g.team.members) = TeamSize(g.missionNo)
    THEN [g EXCEPT !.phase = "team-building-review",
                   !.phaseCountdown = PhaseTicks, !.speakingTurn = NoTurn,
                   !.inst = @ + 1]
    ELSE g

passTeamBuilding(g) ==
  IF g.phase = "team-building" THEN ProposalFailed(g) ELSE g

sendProposalVote(g, player, vote) ==
  IF g.phase = "voting" /\ player \in Seats /\ g.team.votes[player] = "none"
     /\ vote \in {"accept", "reject"}
    THEN LET g1 == [g EXCEPT !.team.votes[player] = vote] IN
         IF \A p \in Seats : g1.team.votes[p] # "none" THEN ResolveVotes(g1)
         ELSE g1
    ELSE g

sendMissionAction(g, player, act) ==
  IF g.phase = "mission" /\ player \in g.mission.members
     /\ g.mission.actions[player] = "none" /\ act \in {"success", "fail"}
    THEN LET g1 == [g EXCEPT !.mission.actions[player] = act] IN
         IF \A p \in g1.mission.members : g1.mission.actions[p] # "none"
           THEN ResolveMission(g1)
           ELSE g1
    ELSE g

updateAssassinChoice(g, player) ==
  IF g.phase = "finished-assassinate" /\ player \in Seats
    THEN [g EXCEPT !.assassinChoice = player]
    ELSE g

finishAssassinChoice(g) ==
  IF g.phase = "finished-assassinate" /\ g.assassinChoice # NoSeat
    THEN Finish(g, IF RoleOf(g.assassinChoice) = "merlin" THEN "spy" ELSE "agent")
    ELSE g

\* the countdown of a phase ran out: its default resolution
PhaseExpired(g) ==
  CASE g.phase = "role-reveal" -> StartTeamBuilding(g, AgentSeat, 1)
    [] g.phase = "team-building" -> passTeamBuilding(g)
    [] g.phase = "team-building-review" ->
         [g EXCEPT !.phase = "voting", !.phaseCountdown = PhaseTicks,
                   !.inst = @ + 1]
    [] g.phase = "voting" -> ResolveVotes(g)
    [] g.phase = "voting-review" ->
         IF Accepted(g)
           THEN [g EXCEPT !.phase = "mission", !.phaseCountdown = PhaseTicks,
                          !.mission = [members |-> g.team.members,
                                       actions |-> NoVotes],
                          !.rejections = 0, !.inst = @ + 1]
           ELSE ProposalFailed(g)
    [] g.phase = "mission" -> ResolveMission(g)
    [] g.phase = "mission-review" -> AfterMission(g)
    [] g.phase = "finished-assassinate" -> Finish(g, "agent")
    [] OTHER -> g

\* GameFunc.tick, the second of the speaking turn
tickSpeakingTurn(g) ==
  IF g.speakingTurn = NoTurn THEN g
  ELSE IF g.speakingTurn.timeRemaining > 1
    THEN [g EXCEPT !.speakingTurn.timeRemaining = @ - 1]
  ELSE endSpeakingTurn(g)

\* GameFunc.tick
tick(g) ==
  IF g.phase = "finished" THEN g
  ELSE LET g1 == tickSpeakingTurn(g) IN
       IF g1.phaseCountdown > 1
         THEN [g1 EXCEPT !.phaseCountdown = @ - 1]
         ELSE PhaseExpired(g1)

(***************************************************************************)
(* GameReducer (common/src/game/reducers.ts)                               *)
(***************************************************************************)
\* an action: its type and payload
Act(type, player, members, choice) ==
  [type |-> type, player |-> player, members |-> members, choice |-> choice]

ChatTypes == {"game/new-player-chat-message", "game/auto-send-chat-message"}
\* the actions that move the speaking turn
TurnControlTypes ==
  {"game/pass-speaking-turn", "game/end-speaking-turn",
   "game/start-speaking-turn"}

\* the state a client-sent game/hydrate carries
HydratePayload(a) == [InitGame EXCEPT !.winner = a.choice]

GameReducer(g, a) ==
  CASE a.type = "game/hydrate" -> HydratePayload(a)
    [] a.type = "game/tick" -> tick(g)
    [] a.type = "game/update-team-members" -> updateTeamMembers(g, a.members)
    [] a.type = "game/finish-team-building" -> finishTeamBuilding(g)
    [] a.type = "game/pass-team-building" -> passTeamBuilding(g)
    [] a.type = "game/send-proposal-vote" ->
         sendProposalVote(g, a.player, a.choice)
    [] a.type = "game/send-mission-action" ->
         sendMissionAction(g, a.player, a.choice)
    [] a.type = "game/update-assassin-choice" ->
         updateAssassinChoice(g, a.player)
    [] a.type = "game/finish-assassin-choice" -> finishAssassinChoice(g)
    [] a.type \in ChatTypes ->
         LET g1 == newChatMessage(g, a.player) IN
         IF g1.speakingTurn # NoTurn /\ g1.speakingTurn.currentSpeaker = a.player
           THEN endSpeakingTurn(g1)
           ELSE g1
    [] a.type \in {"game/pass-speaking-turn", "game/end-speaking-turn"} ->
         endSpeakingTurn(g)
    [] a.type = "game/start-speaking-turn" ->
         startSpeakingTurn(g, TurnOrderFrom(a.player))
    [] OTHER -> g

playerDisconnect(g, sock) ==
  LET index == IndexOf(g, sock) IN
  IF index >= 0 THEN [g EXCEPT !.socketIDs[index] = NoSocket] ELSE g

playerReconnect(g, index, sock) == [g EXCEPT !.socketIDs[index] = sock]

(***************************************************************************)
(* Game (backend/src/lobby.ts)                                             *)
(***************************************************************************)
\* Game.onAction's two checks: a chat message and a pass of the turn are
\* dropped when the sender is not the speaker
ChatAllowed(g, sock, a) ==
  LET playerIndex == IndexOf(g, sock)
      t == g.speakingTurn
      isCurrentSpeaker == playerIndex = t.currentSpeaker
      isAutoSend == a.type = "game/auto-send-chat-message"
      previousIndex == (t.turnIndex - 1 + Len(t.turnOrder)) % Len(t.turnOrder)
      wasPreviousSpeaker ==
        isAutoSend /\ ~isCurrentSpeaker
          /\ t.turnOrder[previousIndex + 1] = playerIndex IN
  g.speakingTurn # NoTurn => (isCurrentSpeaker \/ wasPreviousSpeaker)

PassAllowed(g, sock) ==
  g.speakingTurn # NoTurn => IndexOf(g, sock) = g.speakingTurn.currentSpeaker

Dispatched(g, sock, a) ==
  /\ a.type \in ChatTypes => ChatAllowed(g, sock, a)
  /\ a.type = "game/pass-speaking-turn" => PassAllowed(g, sock)

\* the store after Game.onAction(action, socket)
onAction(g, sock, a) == IF Dispatched(g, sock, a) THEN GameReducer(g, a) ELSE g

\* whether the connection holds the authority the action needs: the leader
\* for a selection or its submission, the seat itself for a vote or a mission
\* action (a mission member only), the assassin for the target
HoldsAuthority(g, sock, a) ==
  LET seat == IndexOf(g, sock) IN
  CASE a.type \in {"game/update-team-members", "game/finish-team-building",
                   "game/pass-team-building"} ->
         seat # NoSeat /\ seat = g.team.leader
    [] a.type = "game/send-proposal-vote" -> seat # NoSeat /\ seat = a.player
    [] a.type = "game/send-mission-action" ->
         seat # NoSeat /\ seat = a.player /\ seat \in g.mission.members
    [] a.type \in {"game/update-assassin-choice", "game/finish-assassin-choice"} ->
         seat # NoSeat /\ RoleOf(seat) = "assassin"
    [] OTHER -> TRUE

\* how the sender stands to the speaking turn
TurnRelation(g, sock) ==
  LET playerIndex == IndexOf(g, sock)
      t == g.speakingTurn IN
  IF t = NoTurn THEN "no turn"
  ELSE IF playerIndex = t.currentSpeaker THEN "speaker"
  ELSE IF playerIndex =
          t.turnOrder[((t.turnIndex - 1 + Len(t.turnOrder)) % Len(t.turnOrder)) + 1]
    THEN "previous"
  ELSE "other"

\* what is remembered of the input handled last: its type, how its sender
\* stood to the turn and to the authority it needs, and what it did;
\* forwarded: the agents were routed the state as it now is
Handled(g, type, rel, auth, g2) ==
  [type |-> type, rel |-> rel, authorized |-> auth,
   changed |-> g2 # g,
   chatted |-> g2.chat # g.chat,
   wasOver |-> g.phase = "finished" /\ g.winner # "null",
   undone |-> g.phase = "finished" /\ g.winner # "null"
              /\ (g2.phase # "finished" \/ g2.winner # g.winner),
   misattributed |-> FALSE,
   forwarded |-> TRUE]

\* a chat message was recorded under a seat that is not the sender's
Misattributed(g, sock, a, g2) ==
  /\ a.type \in ChatTypes
  /\ g2.chat # g.chat
  /\ g2.chat[Len(g2.chat)] # IndexOf(g, sock)

NoInput ==
  [type |-> "none", rel |-> "no turn", authorized |-> TRUE, changed |-> FALSE,
   chatted |-> FALSE, wasOver |-> FALSE, undone |-> FALSE,
   misattributed |-> FALSE, forwarded |-> TRUE]

NoMembers == {}

\* the connections that send: one that holds a seat and one that holds none
HumanSeat == AgentSeat + 1
Senders == {SocketOf(HumanSeat), Outsider}
\* the seats a payload names, and the teams and targets it selects
ClaimedSeats == {AgentSeat, HumanSeat}
Teams == {{AgentSeat, HumanSeat}, {HumanSeat, NumSeats - 1}}
Targets == {HumanSeat, NumSeats - 1}

\* the actions a client can send
ClientActions ==
  {Act(t, p, NoMembers, "none") : t \in ChatTypes, p \in ClaimedSeats}
  \cup {Act("game/pass-speaking-turn", NoSeat, NoMembers, "none"),
        Act("game/end-speaking-turn", NoSeat, NoMembers, "none"),
        Act("game/start-speaking-turn", HumanSeat, NoMembers, "none"),
        Act("game/finish-team-building", NoSeat, NoMembers, "none"),
        Act("game/finish-assassin-choice", NoSeat, NoMembers, "none")}
  \cup {Act("game/update-team-members", NoSeat, m, "none") : m \in Teams}
  \cup {Act("game/send-proposal-vote", p, NoMembers, v) :
          p \in ClaimedSeats, v \in {"accept", "reject"}}
  \cup {Act("game/send-mission-action", p, NoMembers, v) :
          p \in ClaimedSeats, v \in {"success", "fail"}}
  \cup {Act("game/update-assassin-choice", p, NoMembers, "none") : p \in Targets}
  \cup {Act("game/hydrate", NoSeat, NoMembers, "null")}

\* Game.tick: the interval fires
Tick ==
  /\ timer
  /\ LET a == Act("game/tick", NoSeat, NoMembers, "none") IN
       /\ game' = GameReducer(game, a)
       /\ last' = Handled(game, a.type, "no turn", TRUE, game')
  /\ timer' = (game'.phase # "finished")
  /\ UNCHANGED <<clientVars, agentVars>>

\* server.onAction -> Game.onAction: a connection of the room sends an action.
\* The chat is followed up to MaxChat messages, and a start of the turn while
\* a turn is active.
ClientAction(sock, a) ==
  /\ a.type \in ChatTypes => Len(game.chat) < MaxChat
  /\ a.type = "game/start-speaking-turn" => game.speakingTurn # NoTurn
  /\ game' = onAction(game, sock, a)
  /\ last' = [Handled(game, a.type, TurnRelation(game, sock),
                       HoldsAuthority(game, sock, a), game')
                 EXCEPT !.misattributed = Misattributed(game, sock, a, game'),
                        !.forwarded = Dispatched(game, sock, a) \/ last.forwarded]
  /\ UNCHANGED timer
  /\ UNCHANGED <<clientVars, agentVars>>

\* Game.onLeave: the action is dispatched and sent to the room, the router
\* of the agents is not called
Leave(sock) ==
  /\ IndexOf(game, sock) # NoSeat
  /\ game' = playerDisconnect(game, sock)
  /\ last' = [Handled(game, "game/player-disconnect", "no turn", TRUE, game')
                 EXCEPT !.forwarded = last.forwarded /\ game' = game]
  /\ UNCHANGED timer
  /\ UNCHANGED <<clientVars, agentVars>>

\* Game.onRejoin: the index is the one the client names; nothing is
\* checked of the connection or of the seat
Rejoin(sock, index) ==
  /\ game' = playerReconnect(game, index, sock)
  /\ last' = [Handled(game, "game/player-reconnect", "no turn", TRUE, game')
                 EXCEPT !.forwarded = last.forwarded /\ game' = game]
  /\ UNCHANGED timer
  /\ UNCHANGED <<clientVars, agentVars>>

\* the connections that come and go, and the seats a rejoin names
LeavingSockets == {SocketOf(HumanSeat)}
RejoinSeats == {HumanSeat}

\* the session on its own: the agent's seat stays silent
IdleAgent ==
  /\ agent = [errorCount |-> 0]
  /\ tasks = <<>>
  /\ lastDecision = [kind |-> "none"]
  /\ emitted = [count |-> 0]

GameInit ==
  /\ ClientInit
  /\ IdleAgent
  /\ game = InitGame
  /\ timer = TRUE
  /\ last = NoInput

GameNext ==
  \/ Tick
  \/ \E sock \in Senders, a \in ClientActions :
       ClientAction(sock, a)
  \/ \E sock \in LeavingSockets : Leave(sock)
  \/ \E sock \in LeavingSockets \cup {Outsider}, index \in RejoinSeats :
       Rejoin(sock, index)

SpecGame == GameInit /\ [][GameNext]_vars

(***************************************************************************)
(* The speaking turns of a session and the chat messages its connections   *)
(* send.  Here game is the part of GameState the chat checks read, and     *)
(* last is the message handled last with two counts that follow the turns: *)
(* ended, the seat whose turn ended when the current one began (NoSeat     *)
(* before the first), and lateCount, the late messages accepted since.     *)
(***************************************************************************)
\* late messages followed per turn
MaxLate == 2

NoMessage ==
  [type |-> "none", sender |-> NoSeat, accepted |-> FALSE, late |-> FALSE,
   ended |-> NoSeat, lateCount |-> 0]

\* the ghost counts once the store went from g to g2
TurnsAfter(g, g2, lateAccepted) ==
  IF g2.speakingTurn.turnIndex # g.speakingTurn.turnIndex
    THEN [ended |-> g.speakingTurn.currentSpeaker, lateCount |-> 0]
    ELSE [ended |-> last.ended,
          lateCount |-> last.lateCount + (IF lateAccepted THEN 1 ELSE 0)]

\* Game.tick, as far as the speaking turn goes
TurnTick ==
  /\ game' = tickSpeakingTurn(game)
  /\ LET n == TurnsAfter(game, game', FALSE) IN
       last' = [NoMessage EXCEPT !.type = "game/tick", !.ended = n.ended,
                                 !.lateCount = n.lateCount]
  /\ UNCHANGED <<clientVars, timer, agentVars>>

\* Game.onAction for a chat message or a pass of the turn
TurnAction(sock, type, player) ==
  LET a == Act(type, player, NoMembers, "none")
      isLate == IndexOf(game, sock) # game.speakingTurn.currentSpeaker
      ok == Dispatched(game, sock, a) IN
  /\ (type \in ChatTypes /\ isLate /\ ok) => last.lateCount < MaxLate
  /\ game' = onAction(game, sock, a)
  /\ LET n == TurnsAfter(game, game', type \in ChatTypes /\ isLate /\ ok) IN
       last' = [type |-> type, sender |-> IndexOf(game, sock), accepted |-> ok,
                late |-> isLate, ended |-> n.ended, lateCount |-> n.lateCount]
  /\ UNCHANGED <<clientVars, timer, agentVars>>

\* a proposal was rejected or a mission is over: team building starts again
\* with the turn order of the next leader
TurnsRestart(leader) ==
  /\ game' = startSpeakingTurn(game, TurnOrderFrom(leader))
  /\ last' = [NoMessage EXCEPT !.type = "game/start-speaking-turn",
                               !.ended = game.speakingTurn.currentSpeaker]
  /\ UNCHANGED <<clientVars, timer, agentVars>>

TurnsInit ==
  /\ ClientInit
  /\ game = startSpeakingTurn(
              [socketIDs |-> [p \in Seats |-> SocketOf(p)], chat |-> <<>>,
               speakingTurn |-> NoTurn],
              TurnOrderFrom(AgentSeat))
  /\ timer = TRUE
  /\ last = NoMessage
  /\ agent = [errorCount |-> 0]
  /\ tasks = <<>>
  /\ lastDecision = [kind |-> "none"]
  /\ emitted = [count |-> 0]

TurnActionTypes == ChatTypes \cup {"game/pass-speaking-turn"}

TurnsNext ==
  \/ TurnTick
  \/ \E sock \in HumanSockets \cup {SocketOf(AgentSeat)}, type \in TurnActionTypes :
       TurnAction(sock, type, IndexOf(game, sock))
  \/ \E leader \in Seats : TurnsRestart(leader)

SpecTurns == TurnsInit /\ [][TurnsNext]_vars

\* C35: a chat message sent automatically by a seat that is not the current
\* speaker is accepted only from the seat whose turn ended when the current
\* one began, and one such message at most is accepted for an ended turn
C35_LateChatOnlyFromLastHolder ==
  (last.type = "game/auto-send-chat-message" /\ last.late /\ last.accepted) =>
    /\ last.sender = last.ended
    /\ last.lateCount <= 1

(***************************************************************************)
(* The session and the store of a client of its room.  Every handler of    *)
(* Game dispatches to the store and emits the action to the room; the      *)
(* client applies what it receives, in the order of the emits, with the    *)
(* same GameReducer.  Here last is the client: its store, the actions sent *)
(* to the room that it has not applied yet, and what became of the input   *)
(* handled last.                                                           *)
(***************************************************************************)
\* the actions in flight to the client
MaxPending == 2

\* the actions Game makes itself: playerDisconnect({socketID}) and
\* playerReconnect({index, socketID, name})
DisconnectAction(sock) == Act("game/player-disconnect", NoSeat, {sock}, "none")
ReconnectAction(index, sock) == Act("game/player-reconnect", index, {sock}, "none")

\* GameReducer with the two cases of the connections
StoreReducer(g, a) ==
  IF a.type = "game/player-disconnect"
    THEN playerDisconnect(g, CHOOSE sock \in a.members : TRUE)
  ELSE IF a.type = "game/player-reconnect"
    THEN playerReconnect(g, a.player, CHOOSE sock \in a.members : TRUE)
  ELSE GameReducer(g, a)

\* the client's store once it applied the actions in flight
RECURSIVE AfterAll(_, _)
AfterAll(g, as) ==
  IF as = <<>> THEN g ELSE AfterAll(StoreReducer(g, Head(as)), Tail(as))

\* an emit that reaches the room twice
emitToRoomTwice(pending, a) == Append(Append(pending, a), a)

\* io.to(this.roomID).emit("action", actionFromServer(action))
emitToRoom(pending, a) == Append(pending, a)

\* store.dispatch(action) followed by the emit to the room
DispatchAndEmit(a) ==
  /\ game' = StoreReducer(game, a)
  /\ last' = [replica |-> last.replica, pending |-> emitToRoom(last.pending, a),
              input |-> "applied", changed |-> game' # game, sent |-> TRUE]

\* Game.tick
ReplicaTick ==
  /\ timer
  /\ Len(last.pending) < MaxPending
  /\ DispatchAndEmit(Act("game/tick", NoSeat, NoMembers, "none"))
  /\ timer' = (game'.phase # "finished")
  /\ UNCHANGED <<clientVars, agentVars>>

\* Game.onAction: the return of the two checks comes before the dispatch
ReplicaAction(sock, a) ==
  /\ Len(last.pending) < MaxPending
  /\ a.type \in ChatTypes => Len(game.chat) < MaxChat
  /\ IF Dispatched(game, sock, a)
       THEN DispatchAndEmit(a)
       ELSE /\ game' = game
            /\ last' = [last EXCEPT !.input = "rejected", !.changed = FALSE,
                                    !.sent = FALSE]
  /\ UNCHANGED timer
  /\ UNCHANGED <<clientVars, agentVars>>

\* Game.onLeave
ReplicaLeave(sock) ==
  /\ Len(last.pending) < MaxPending
  /\ IndexOf(game, sock) # NoSeat
  /\ DispatchAndEmit(DisconnectAction(sock))
  /\ UNCHANGED timer
  /\ UNCHANGED <<clientVars, agentVars>>

\* Game.onRejoin
ReplicaRejoin(sock, index) ==
  /\ Len(last.pending) < MaxPending
  /\ DispatchAndEmit(ReconnectAction(index, sock))
  /\ UNCHANGED timer
  /\ UNCHANGED <<clientVars, agentVars>>

\* the client receives the action sent first and dispatches it to its store
ReplicaReceive ==
  /\ last.pending # <<>>
  /\ last' = [replica |-> StoreReducer(last.replica, Head(last.pending)),
              pending |-> Tail(last.pending),
              input |-> "none", changed |-> FALSE, sent |-> FALSE]
  /\ UNCHANGED <<game, timer>>
  /\ UNCHANGED <<clientVars, agentVars>>

\* the actions the connections of the room send
ReplicaActions ==
  {Act(t, HumanSeat, NoMembers, "none") : t \in ChatTypes}
  \cup {Act("game/pass-speaking-turn", NoSeat, NoMembers, "none"),
        Act("game/finish-team-building", NoSeat, NoMembers, "none"),
        Act("game/update-team-members", NoSeat, {AgentSeat, HumanSeat}, "none"),
        Act("game/send-proposal-vote", HumanSeat, NoMembers, "accept"),
        Act("game/hydrate", NoSeat, NoMembers, "null")}

\* the client joined the room before the game was made: GameAction.hydrate
\* of the start gives it the state of the store
ReplicaInit ==
  /\ ClientInit
  /\ IdleAgent
  /\ game = InitGame
  /\ timer = TRUE
  /\ last = [replica |-> InitGame, pending |-> <<>>, input |-> "none",
             changed |-> FALSE, sent |-> FALSE]

ReplicaNext ==
  \/ ReplicaTick
  \/ \E sock \in Senders, a \in ReplicaActions : ReplicaAction(sock, a)
  \/ \E sock \in LeavingSockets : ReplicaLeave(sock)
  \/ \E sock \in LeavingSockets, index \in RejoinSeats : ReplicaRejoin(sock, index)
  \/ ReplicaReceive

SpecReplica == ReplicaInit /\ [][ReplicaNext]_vars

\* C39: the store of a client that has applied everything sent to the room
\* is the store of the session: an input the session applies is sent to the
\* room once, after the inputs applied before it, and an input it rejects
\* changes nothing and is not sent
C39_ReplicaFollowsStore ==
  /\ AfterAll(last.replica, last.pending) = game
  /\ last.input = "applied" => last.sent
  /\ last.input = "rejected" => ~last.changed /\ ~last.sent

\* the client caught up with a session in which a player spoke and left,
\* and the chat message of a seat that is not the speaker was rejected last
C39_Witness ==
  /\ last.input = "rejected"
  /\ last.pending # <<>>
  /\ game.socketIDs[HumanSeat] = NoSocket
  /\ game.chat # <<>>
  /\ last.replica # InitGame

(***************************************************************************)
(* The session while its players leave (Lobby.handleUserLeaveGame).  Here  *)
(* last holds the seats that agents hold, whose socket ids ("ai_...") are   *)
(* never null, and the ticks applied since the last player left.           *)
(***************************************************************************)
\* the ticks followed after the last player left
MaxTicksAfter == 2

\* the seatings: no agent, or the agent in its seat
AgentSeatings == {{}, {AgentSeat}}

\* socketIDs.reduce((a, v) => (v === null ? a : a + 1), 0)
ConnectedCount(g) == Cardinality({p \in Seats : g.socketIDs[p] # NoSocket})

\* every seat that a player holds is disconnected
AllHumansGone == \A p \in Seats \ last.agents : game.socketIDs[p] = NoSocket

\* Game.tick
LeaveTick ==
  /\ timer
  /\ AllHumansGone => last.ticksAfter < MaxTicksAfter
  /\ game' = tick(game)
  /\ timer' = (game'.phase # "finished")
  /\ last' = [last EXCEPT !.ticksAfter = IF AllHumansGone THEN @ + 1 ELSE @]
  /\ UNCHANGED <<clientVars, agentVars>>

\* Lobby.handleUserLeaveGame: Game.onLeave, then the game is stopped and
\* dropped if no socket id is left
HandleUserLeaveGame(p) ==
  /\ p \notin last.agents
  /\ game.socketIDs[p] # NoSocket
  /\ game' = playerDisconnect(game, game.socketIDs[p])
  /\ timer' = IF ConnectedCount(game') = 0 THEN FALSE ELSE timer
  /\ UNCHANGED last
  /\ UNCHANGED <<clientVars, agentVars>>

LeaveInit ==
  /\ ClientInit
  /\ IdleAgent
  /\ game = InitGame
  /\ timer = TRUE
  /\ \E agents \in AgentSeatings : last = [agents |-> agents, ticksAfter |-> 0]

LeaveNext ==
  \/ LeaveTick
  \/ \E p \in Seats : HandleUserLeaveGame(p)

SpecLeave == LeaveInit /\ [][LeaveNext]_vars

\* C40: once every seat held by a player is disconnected the session is
\* stopped: its interval is cleared and no tick is applied any more, with
\* or without agents in the other seats
C40_StoppedWhenHumansGone ==
  AllHumansGone => (~timer /\ last.ticksAfter = 0)

(***************************************************************************)
(* QueueManager (backend/src/queue.ts) and the server's handling of the    *)
(* queue actions (backend/src/server.ts).  Here game is the matchmaking    *)
(* state: the queues by difficulty, Server.sockets and the number of       *)
(* agents and rooms created; last is the operation handled last.           *)
(***************************************************************************)
\* the connections of players, the agents POST /api/create-ai-agent may
\* create, the entries one queue and one connection are followed up to and
\* the rooms followed
NumHumans == 2
MaxAI == 5
MaxQueue == 6
MaxEntries == 2
MaxRooms == 2

HumanSocketIds == 1..NumHumans
AISocketIds == (NumHumans + 1)..(NumHumans + MaxAI)
QueueSockets == HumanSocketIds \cup AISocketIds
\* Server.sockets: no entry for the connection, or the entry null
Absent == -1
NoRoom == 0

Difficulties == <<"easy", "medium", "hard">>
DifficultySet == {Difficulties[k] : k \in 1..Len(Difficulties)}

\* DIFFICULTY_PLAYER_COUNTS
DIFFICULTY_PLAYER_COUNTS(d) ==
  CASE d = "easy" -> 5 [] d = "medium" -> 7 [] d = "hard" -> 9

\* the entries of the socket, over all queues
EntriesOf(q, socketId) ==
  LET n(d) == Cardinality({k \in 1..Len(q.queues[d]) :
                             q.queues[d][k].socketId = socketId}) IN
  n("easy") + n("medium") + n("hard")

\* what is kept of the operation handled last
QueueOp(op, q, socketId, q2, game5) ==
  [op |-> op, socketId |-> socketId,
   held |-> EntriesOf(q, socketId) > 0 \/ q.sockets[socketId] > NoRoom,
   added |-> EntriesOf(q2, socketId) - EntriesOf(q, socketId),
   started |-> game5 # <<>>, players |-> game5]

\* QueueManager.checkAndStartGame: the players of the game it starts, if any
playersForGame(q, difficulty) ==
  LET queue == q.queues[difficulty]
      requiredPlayers == DIFFICULTY_PLAYER_COUNTS(difficulty)
      hasHumanPlayer == \E k \in 1..Len(queue) : ~queue[k].isAI IN
  IF Len(queue) >= requiredPlayers /\ hasHumanPlayer
    THEN SubSeq(queue, 1, requiredPlayers)
    ELSE <<>>

\* QueueManager.checkAndStartGame: queue.splice(0, requiredPlayers), the
\* room and this.sockets.set(socketId, roomID) for each of its players
checkAndStartGame(q, difficulty) ==
  LET players == playersForGame(q, difficulty)
      roomID == q.rooms + 1 IN
  IF players = <<>> THEN q
  ELSE [q EXCEPT
          !.queues[difficulty] = SubSeq(@, Len(players) + 1, Len(@)),
          !.rooms = roomID,
          !.sockets = [id \in QueueSockets |->
                         IF \E k \in 1..Len(players) : players[k].socketId = id
                           THEN roomID ELSE @[id]]]

\* QueueManager.addToQueue
addToQueue(q, socketId, difficulty, isAI) ==
  checkAndStartGame(
    [q EXCEPT !.queues[difficulty] =
                Append(@, [socketId |-> socketId, isAI |-> isAI])],
    difficulty)

\* the sequence without its element k
WithoutElement(seq, k) == SubSeq(seq, 1, k - 1) \o SubSeq(seq, k + 1, Len(seq))

\* QueueManager.removeFromQueue: the first entry of the socket in the first
\* queue that holds one
RECURSIVE removeFromQueues(_, _, _)
removeFromQueues(q, socketId, n) ==
  IF n > Len(Difficulties) THEN q
  ELSE LET d == Difficulties[n]
           hits == {k \in 1..Len(q.queues[d]) : q.queues[d][k].socketId = socketId} IN
       IF hits = {} THEN removeFromQueues(q, socketId, n + 1)
       ELSE [q EXCEPT !.queues[d] =
               WithoutElement(@, CHOOSE k \in hits : \A j \in hits : k <= j)]

removeFromQueue(q, socketId) == removeFromQueues(q, socketId, 1)

\* Server.onAction(clientJoinQueue): "protect against double join"
ClientJoinQueue(socketId, difficulty) ==
  /\ game.sockets[socketId] # Absent
  /\ Len(game.queues[difficulty]) < MaxQueue
  /\ EntriesOf(game, socketId) < MaxEntries
  /\ game.rooms < MaxRooms
  /\ game' = IF game.sockets[socketId] > NoRoom THEN game
             ELSE addToQueue(game, socketId, difficulty, FALSE)
  /\ last' = QueueOp("join", game, socketId, game',
                     IF game.sockets[socketId] > NoRoom THEN <<>>
                     ELSE playersForGame(
                            [game EXCEPT !.queues[difficulty] =
                               Append(@, [socketId |-> socketId, isAI |-> FALSE])],
                            difficulty))
  /\ UNCHANGED <<clientVars, timer, agentVars>>

\* Server.onAction(clientLeaveQueue)
ClientLeaveQueue(socketId) ==
  /\ game.sockets[socketId] # Absent
  /\ game' = removeFromQueue(game, socketId)
  /\ last' = QueueOp("leave", game, socketId, game', <<>>)
  /\ UNCHANGED <<clientVars, timer, agentVars>>

\* Server.onAction(clientLeaveLobby)
ClientLeaveLobby(socketId) ==
  /\ game.sockets[socketId] > NoRoom
  /\ game' = [game EXCEPT !.sockets[socketId] = NoRoom]
  /\ last' = QueueOp("leave-lobby", game, socketId, game', <<>>)
  /\ UNCHANGED <<clientVars, timer, agentVars>>

\* Server.onDisconnect
QueueDisconnect(socketId) ==
  /\ game.sockets[socketId] # Absent
  /\ game' = removeFromQueue([game EXCEPT !.sockets[socketId] = Absent], socketId)
  /\ last' = [QueueOp("disconnect", game, socketId, game', <<>>)
                 EXCEPT !.held = FALSE]
  /\ UNCHANGED <<clientVars, timer, agentVars>>

\* Server.createAIAgent, called by POST /api/create-ai-agent with the
\* default difficulty
CreateAIAgent ==
  /\ game.aiCreated < MaxAI
  /\ Len(game.queues["easy"]) < MaxQueue
  /\ game.rooms < MaxRooms
  /\ LET socketId == NumHumans + game.aiCreated + 1
         q1 == [game EXCEPT !.aiCreated = @ + 1, !.sockets[socketId] = NoRoom] IN
       /\ game' = addToQueue(q1, socketId, "easy", TRUE)
       /\ last' = QueueOp("create-ai", q1, socketId, game',
                          playersForGame(
                            [q1 EXCEPT !.queues["easy"] =
                               Append(@, [socketId |-> socketId, isAI |-> TRUE])],
                            "easy"))
  /\ UNCHANGED <<clientVars, timer, agentVars>>

QueueInit ==
  /\ ClientInit
  /\ game = [queues |-> [d \in DifficultySet |-> <<>>],
             sockets |-> [id \in QueueSockets |->
                            IF id \in HumanSocketIds THEN NoRoom ELSE Absent],
             aiCreated |-> 0, rooms |-> 0]
  /\ timer = FALSE
  /\ last = [op |-> "none", socketId |-> Absent, held |-> FALSE, added |-> 0,
             started |-> FALSE, players |-> <<>>]
  /\ agent = [errorCount |-> 0]
  /\ tasks = <<>>
  /\ lastDecision = [kind |-> "none"]
  /\ emitted = [count |-> 0]

QueueNext ==
  \/ \E socketId \in HumanSocketIds, d \in DifficultySet : ClientJoinQueue(socketId, d)
  \/ \E socketId \in HumanSocketIds : ClientLeaveQueue(socketId)
  \/ \E socketId \in HumanSocketIds : ClientLeaveLobby(socketId)
  \/ \E socketId \in HumanSocketIds : QueueDisconnect(socketId)
  \/ CreateAIAgent

SpecQueue == QueueInit /\ [][QueueNext]_vars

\* C37: the players of a game started from a queue are never all agents
C37_NoGameOfAgentsOnly ==
  last.started => \E k \in 1..Len(last.players) : ~last.players[k].isAI

\* C38: no connection has two entries in the queues, and a join of a
\* connection that has an entry or is in a room adds none
C38_QueuedAtMostOnce ==
  /\ \A socketId \in QueueSockets : EntriesOf(game, socketId) <= 1
  /\ (last.op = "join" /\ last.held) => last.added <= 0

(***************************************************************************)
(* The seats of a session under playerDisconnect and playerReconnect, with *)
(* the arrays of GameState.player as JavaScript keeps them: lists indexed  *)
(* from 0 that grow when an index past their end is assigned.  Here game   *)
(* is GameState.player and last is the input handled last and the player   *)
(* record before it.                                                       *)
(***************************************************************************)
\* the element of a hole of an array, and the name of no one
Undefined == -2
\* the connections of the room: the seats' and one more member's
RoomSockets == {SocketOf(p) : p \in Seats} \cup {Outsider}
\* payload.index of clientRejoinGame is what the client sends
RejoinIndices == (-1)..NumSeats

\* array.indexOf(x), from 0; -1 when absent
ArrayIndexOf(arr, x) ==
  IF \E k \in 1..Len(arr) : arr[k] = x
    THEN (CHOOSE k \in 1..Len(arr) :
            arr[k] = x /\ \A j \in 1..(k - 1) : arr[j] # x) - 1
    ELSE -1

\* array[index] = x: an index past the end lengthens the array, a negative
\* one sets a property and leaves the elements alone
ArrayAssign(arr, index, x) ==
  IF index < 0 THEN arr
  ELSE [k \in 1..(IF index + 1 > Len(arr) THEN index + 1 ELSE Len(arr)) |->
          IF k = index + 1 THEN x
          ELSE IF k <= Len(arr) THEN arr[k] ELSE Undefined]

\* GameReducer, case playerDisconnect
seatDisconnect(player, socketID) ==
  LET index == ArrayIndexOf(player.socketIDs, socketID) IN
  IF index >= 0 /\ index < Len(player.socketIDs)
    THEN [player EXCEPT !.socketIDs = ArrayAssign(@, index, NoSocket)]
    ELSE player

\* GameReducer, case playerReconnect
seatReconnect(player, index, socketID, name) ==
  [player EXCEPT !.socketIDs = ArrayAssign(@, index, socketID),
                 !.names = ArrayAssign(@, index, name)]

\* Lobby.handleUserLeaveGame -> Game.onLeave
SeatLeave(socketID) ==
  /\ game' = seatDisconnect(game, socketID)
  /\ last' = [op |-> "leave", index |-> ArrayIndexOf(game.socketIDs, socketID),
              socketID |-> socketID, before |-> game]
  /\ UNCHANGED <<clientVars, timer, agentVars>>

\* Lobby.onAction, clientRejoinGame -> Game.onRejoin: the name is the
\* member's, the index the payload's
SeatRejoin(socketID, index) ==
  /\ Len(game.socketIDs) <= NumSeats
  /\ game' = seatReconnect(game, index, socketID, socketID)
  /\ last' = [op |-> "rejoin", index |-> index, socketID |-> socketID,
              before |-> game]
  /\ UNCHANGED <<clientVars, timer, agentVars>>

SeatsInit ==
  /\ ClientInit
  /\ IdleAgent
  /\ game = [socketIDs |-> [k \in 1..NumSeats |-> SocketOf(k - 1)],
             names |-> [k \in 1..NumSeats |-> SocketOf(k - 1)],
             roles |-> [k \in 1..NumSeats |-> RoleOf(k - 1)]]
  /\ timer = TRUE
  /\ last = [op |-> "none", index |-> -1, socketID |-> NoSocket, before |-> game]

SeatsNext ==
  \/ \E socketID \in RoomSockets : SeatLeave(socketID)
  \/ \E socketID \in RoomSockets, index \in RejoinIndices :
       SeatRejoin(socketID, index)

SpecSeats == SeatsInit /\ [][SeatsNext]_vars

\* the positions at which two arrays of one length differ
Differing(a, b) == {k \in 1..Len(a) : a[k] # b[k]}

\* C31: a disconnect or reconnect leaves the roles as they were and the
\* number of seats what it was at the start, and changes the connection
\* and the name of one seat at most.
C31_OnlyOneSeatsConnectionChanges ==
  last.op # "none"
    => /\ game.roles = last.before.roles
       /\ Len(game.socketIDs) = NumSeats
       /\ Len(game.names) = NumSeats
       /\ Cardinality(Differing(game.socketIDs, last.before.socketIDs)
                        \cup Differing(game.names, last.before.names)) <= 1

\* C32: a reconnect that changed the seats was applied to a seat without a
\* connection, and no connection is the connection of two seats.
C32_ReconnectOnlyToEmptySeat ==
  /\ (last.op = "rejoin" /\ game # last.before /\ last.index >= 0
        /\ last.index < Len(last.before.socketIDs))
       => last.before.socketIDs[last.index + 1] = NoSocket
  /\ \A j, k \in 1..Len(game.socketIDs) :
       (j # k /\ game.socketIDs[j] = game.socketIDs[k])
         => game.socketIDs[j] \in {NoSocket, Undefined}

(***************************************************************************)
(* Game.saveGameStateChanges: the histories of the state are written to    *)
(* the database.  Here game is the histories, and last is the lengths Game *)
(* remembers, the rows the last call saved and what the session made of    *)
(* the team or mission they are about.                                     *)
(***************************************************************************)
NoHistories == [teamHistory |-> <<>>, missionHistory |-> <<>>]
NothingSaved ==
  [lastTeamHistoryLength |-> 0, lastMissionHistoryLength |-> 0,
   teams |-> <<>>, missions |-> <<>>, accepted |-> FALSE, failed |-> FALSE]

\* the entries of a history from the length remembered on
NewEntries(history, from) ==
  [k \in 1..(Len(history) - from) |-> history[from + k]]

\* team.votes.some(v => v !== "none")
approved(team) == \E p \in DOMAIN team.votes : team.votes[p] # "none"

\* failCount > 0 ? "fail" : "success"
MissionResult(mission) ==
  LET failCount ==
        Cardinality({k \in DOMAIN mission.actions : mission.actions[k] = "fail"}) IN
  IF failCount > 0 THEN "fail" ELSE "success"

saveGameStateChanges(s, g) ==
  LET newTeams == NewEntries(g.teamHistory, s.lastTeamHistoryLength)
      newMissions == NewEntries(g.missionHistory, s.lastMissionHistoryLength) IN
  [s EXCEPT
     !.teams = IF Len(g.teamHistory) > s.lastTeamHistoryLength
                 THEN [k \in DOMAIN newTeams |->
                         [team |-> newTeams[k], approved |-> approved(newTeams[k])]]
                 ELSE <<>>,
     !.lastTeamHistoryLength =
        IF Len(g.teamHistory) > @ THEN Len(g.teamHistory) ELSE @,
     !.missions = IF Len(g.missionHistory) > s.lastMissionHistoryLength
                    THEN [k \in DOMAIN newMissions |->
                            [mission |-> newMissions[k],
                             result |-> MissionResult(newMissions[k])]]
                    ELSE <<>>,
     !.lastMissionHistoryLength =
        IF Len(g.missionHistory) > @ THEN Len(g.missionHistory) ELSE @]

\* the session in its voting phase, with the votes cast so far
VotingGame(votes, absent) ==
  [InitGame EXCEPT
     !.phase = "voting", !.missionNo = 1,
     !.socketIDs = [p \in Seats |-> IF p \in absent THEN NoSocket ELSE @[p]],
     !.team = [leader |-> AgentSeat, members |-> {AgentSeat, HumanSeat},
               votes |-> votes]]

\* the vote on a proposal resolves: the team goes to the history, and the
\* dispatch is followed by saveGameStateChanges
VoteResolves(votes, absent) ==
  /\ Len(game.teamHistory) < MaxHistory
  /\ LET g1 == ResolveVotes(VotingGame(votes, absent)) IN
       /\ game' = [game EXCEPT !.teamHistory = Append(@, g1.team)]
       /\ last' = [saveGameStateChanges(last, game')
                      EXCEPT !.accepted = Accepted(g1)]
  /\ UNCHANGED <<clientVars, timer, agentVars>>

\* the actions of the members of mission m in a session of n players, f of
\* them fails
MissionOf(n, m, f) ==
  [mission |-> m, players |-> n,
   actions |-> [k \in 1..MissionTeamSize(n, m) |->
                  IF k <= f THEN "fail" ELSE "success"]]

\* a mission resolves: it goes to the history, and the dispatch is followed
\* by saveGameStateChanges
MissionResolves(n, m, f) ==
  /\ Len(game.missionHistory) < MaxHistory
  /\ game' = [game EXCEPT !.missionHistory = Append(@, MissionOf(n, m, f))]
  /\ last' = [saveGameStateChanges(last, game')
                 EXCEPT !.failed = f >= MissionFailsRequired(n, m)]
  /\ UNCHANGED <<clientVars, timer, agentVars>>

\* the seats that left before the vote resolved
AbsentSeats == {{}, {HumanSeat}}

ArchiveInit ==
  /\ ClientInit
  /\ IdleAgent
  /\ game = NoHistories
  /\ timer = TRUE
  /\ last = NothingSaved

ArchiveNext ==
  \/ \E votes \in [Seats -> {"accept", "reject", "none"}], absent \in AbsentSeats :
       VoteResolves(votes, absent)
  \/ \E n \in PlayerCounts, m \in MissionNumbers :
       \E f \in 0..MissionTeamSize(n, m) : MissionResolves(n, m, f)

SpecArchive == ArchiveInit /\ [][ArchiveNext]_vars

\* C15: a team is recorded as approved exactly when the session accepted
\* it, that is when the accept votes are more than half of the connected
\* seats; a tie is a rejection.
C15_ApprovedIffAccepted ==
  \A k \in DOMAIN last.teams :
    last.teams[k].approved <=> last.accepted

\* C16: a mission is recorded as a failure exactly when its fails reach the
\* threshold of its mission number and player count.
C16_FailureIffThreshold ==
  \A k \in DOMAIN last.missions :
    (last.missions[k].result = "fail") <=> last.failed

(***************************************************************************)
(* The usage records (backend/src/llmAIAgent.ts, aiAgentManager.ts).  Here *)
(* game is the manager: the usage log of every agent it holds and its      *)
(* globalUsageLog; last is the operation done last and the totals          *)
(* getAllUsageStats reported before and after it.                          *)
(***************************************************************************)
AgentIds == 1..NumAgents
\* what a response of the model is logged with: its tokens and its cost
UsageEntries == {[tokens |-> 1, cost |-> 1], [tokens |-> 2, cost |-> 3]}

\* array.slice(-n)
LastN(log, n) ==
  IF Len(log) <= n THEN log ELSE SubSeq(log, Len(log) - n + 1, Len(log))

RECURSIVE SumOf(_, _)
SumOf(log, field) ==
  IF log = <<>> THEN 0 ELSE Head(log)[field] + SumOf(Tail(log), field)

\* LLMAIAgent.logUsage
logUsage(usageLog, entry) == LastN(Append(usageLog, entry), UsageLogKeep)

\* LLMAIAgent.getUsageStats: the totals of the log, and its last records
getUsageStats(usageLog) ==
  [player |-> [totalActions |-> Len(usageLog),
               totalCost |-> SumOf(usageLog, "cost"),
               totalTokens |-> SumOf(usageLog, "tokens")],
   usageLog |-> LastN(usageLog, UsageLogShared)]

\* AIAgentManager.removeAgent
removeAgent(m, socketId) ==
  IF socketId \notin DOMAIN m.agents THEN m
  ELSE LET stats == getUsageStats(m.agents[socketId]) IN
       [agents |-> [id \in DOMAIN m.agents \ {socketId} |-> m.agents[id]],
        globalUsageLog |->
          LastN(m.globalUsageLog \o stats.usageLog, maxGlobalLogSize)]

RECURSIVE SumOverAgents(_, _, _)
SumOverAgents(m, ids, field) ==
  IF ids = {} THEN 0
  ELSE LET id == CHOOSE i \in ids : TRUE IN
       getUsageStats(m.agents[id]).player[field]
         + SumOverAgents(m, ids \ {id}, field)

\* AIAgentManager.getAllUsageStats: the global totals
getAllUsageStats(m) ==
  [totalCost |-> SumOverAgents(m, DOMAIN m.agents, "totalCost")
                   + SumOf(m.globalUsageLog, "cost"),
   totalTokens |-> SumOverAgents(m, DOMAIN m.agents, "totalTokens")
                     + SumOf(m.globalUsageLog, "tokens"),
   totalActions |-> SumOverAgents(m, DOMAIN m.agents, "totalActions")
                      + Len(m.globalUsageLog)]

NoTotals == [totalCost |-> 0, totalTokens |-> 0, totalActions |-> 0]
NoUsage == [op |-> "none", logged |-> 0, before |-> NoTotals, after |-> NoTotals]

\* a response of the model arrives at the agent socketId
LogUsage(socketId, entry) ==
  /\ socketId \in DOMAIN game.agents
  /\ game' = [game EXCEPT !.agents[socketId] = logUsage(@, entry)]
  /\ last' = [op |-> "log", logged |-> Len(game.agents[socketId]),
              before |-> getAllUsageStats(game),
              after |-> getAllUsageStats(game')]
  /\ UNCHANGED <<clientVars, timer, agentVars>>

\* the agent socketId is removed
RemoveAgent(socketId) ==
  /\ socketId \in DOMAIN game.agents
  /\ game' = removeAgent(game, socketId)
  /\ last' = [op |-> "remove", logged |-> Len(game.agents[socketId]),
              before |-> getAllUsageStats(game),
              after |-> getAllUsageStats(game')]
  /\ UNCHANGED <<clientVars, timer, agentVars>>

UsageInit ==
  /\ ClientInit
  /\ IdleAgent
  /\ game = [agents |-> [id \in AgentIds |-> <<>>], globalUsageLog |-> <<>>]
  /\ timer = TRUE
  /\ last = NoUsage

UsageNext ==
  \/ \E socketId \in AgentIds, entry \in UsageEntries : LogUsage(socketId, entry)
  \/ \E socketId \in AgentIds : RemoveAgent(socketId)

SpecUsage == UsageInit /\ [][UsageNext]_vars

\* C22: the totals getAllUsageStats reports right after an agent is removed
\* (actions, tokens, cost) are the totals it reported right before.
C22_RemovalKeepsTotals == last.op = "remove" => last.after = last.before

(***************************************************************************)
(* AIAgentManager.createAgentWithModel.  Here game is the manager (the     *)
(* number of agentConfigs, modelDistribution, currentModelIndex) and last  *)
(* is the list of the configurations its agents were created with, by      *)
(* index, in the order of creation.                                        *)
(***************************************************************************)
ModelDistributions == {"round-robin", "random"}

\* an index that moves on two configurations at a time
nextModelIndexSkipping(currentModelIndex, length) ==
  (currentModelIndex + 2) % length

\* (this.currentModelIndex + 1) % this.agentConfigs.length
nextModelIndex(currentModelIndex, length) == (currentModelIndex + 1) % length

\* createAgentWithModel: the configuration chosen is agentConfigs[picked];
\* random stands for Math.floor(Math.random() * length)
createAgentWithModel(m, random) ==
  IF m.modelDistribution = "round-robin"
    THEN [picked |-> m.currentModelIndex,
          manager |-> [m EXCEPT !.currentModelIndex =
                                  nextModelIndex(@, m.length)]]
    ELSE [picked |-> random, manager |-> m]

CreateAgentWithModel(random) ==
  /\ Len(last) < MaxCreated
  /\ random < game.length
  /\ LET r == createAgentWithModel(game, random) IN
       /\ r.picked < game.length
       /\ game' = r.manager
       /\ last' = Append(last, r.picked)
  /\ UNCHANGED <<clientVars, timer, agentVars>>

DistributionInit ==
  /\ ClientInit
  /\ \E n \in 1..MaxModels, d \in ModelDistributions :
       game = [length |-> n, modelDistribution |-> d, currentModelIndex |-> 0]
  /\ timer = FALSE
  /\ last = <<>>
  /\ agent = [errorCount |-> 0]
  /\ tasks = <<>>
  /\ lastDecision = [kind |-> "none"]
  /\ emitted = [count |-> 0]

DistributionNext == \E random \in 0..(MaxModels - 1) : CreateAgentWithModel(random)

SpecDistribution == DistributionInit /\ [][DistributionNext]_vars

\* C29: under round-robin with n configurations the k-th agent created,
\* counting from 0, has configuration k mod n, and any n agents created in
\* a row have each configuration exactly once.
C29_RoundRobinIsEven ==
  game.modelDistribution = "round-robin"
    => /\ \A k \in 0..(Len(last) - 1) : last[k + 1] = k % game.length
       /\ \A i \in 1..(Len(last) - game.length + 1) :
            {last[j] : j \in i..(i + game.length - 1)} = 0..(game.length - 1)

\* with three configurations, the round has wrapped: five agents created
C29_Witness ==
  /\ game.modelDistribution = "round-robin"
  /\ game.length = 3
  /\ Len(last) = 5
  /\ last[4] = 0

(***************************************************************************)
(* getVisiblePlayers (backend/src/aiAgentManager.ts, server.ts): what a    *)
(* seat is shown of the others' roles.  Here game is the roster and last   *)
(* is the seat that looked and what it was shown.                          *)
(***************************************************************************)
RosterSeats == 0..(RosterSize - 1)
\* the two rule sets of types.ts
AvalonRoles ==
  {"merlin", "percival", "loyal_servant", "morgana", "mordred", "oberon",
   "assassin"}
ResistanceRoles ==
  {"agent", "captain", "deputy", "spy", "assassin", "imposter", "mole",
   "intern"}
\* the roles any number of seats can hold
PlainRoles == {"agent", "loyal_servant", "spy"}
\* the rosters of a session: the roles of one rule set, a special role held
\* by one seat at most
Rosters ==
  {r \in [RosterSeats -> AvalonRoles] \cup [RosterSeats -> ResistanceRoles] :
     \A p, q \in RosterSeats : (p # q /\ r[p] = r[q]) => r[p] \in PlainRoles}

\* getTeamFromRole
evilRoles ==
  {"spy", "assassin", "imposter", "mole", "intern", "morgana", "mordred",
   "oberon"}
getTeamFromRole(role) == IF role \in evilRoles THEN "spy" ELSE "agent"

\* a list of the evil seats shown that names the isolated role too
SpiesShownWithOberon ==
  {"spy", "morgana", "assassin", "mordred", "imposter", "mole", "oberon"}

\* the roles the first two branches of getVisiblePlayers test for
SpiesShown == {"spy", "morgana", "assassin", "mordred", "imposter", "mole"}

\* the seats idx # playerIndex whose role is one of shown, in seat order
SeatsShown(roles, playerIndex, shown) ==
  LET Test(idx) == idx # playerIndex /\ roles[idx] \in shown IN
  SelectSeq([k \in 1..RosterSize |-> k - 1], Test)

getVisiblePlayers(roles, playerIndex, role) ==
  LET Entries(seats, reason) ==
        [k \in 1..Len(seats) |->
           [playerId |-> seats[k], role |-> roles[seats[k]], reason |-> reason]] IN
  IF role = "merlin"
    THEN Entries(SeatsShown(roles, playerIndex, SpiesShown \ {"mordred"}),
                 "evil_team")
  ELSE IF role \in SpiesShown
    THEN Entries(SeatsShown(roles, playerIndex, SpiesShown), "evil_team")
  ELSE IF role = "percival"
    THEN Entries(SeatsShown(roles, playerIndex, {"merlin", "morgana"}),
                 "special_sight")
  ELSE <<>>

NoView == [viewer |-> NoSeat, role |-> "none", visible |-> <<>>]

\* routeActionToAgent: the seat playerIndex is given its view of the roster
Observe(playerIndex) ==
  /\ last' = [viewer |-> playerIndex, role |-> game.roles[playerIndex],
              visible |-> getVisiblePlayers(game.roles, playerIndex,
                                            game.roles[playerIndex])]
  /\ UNCHANGED <<clientVars, game, timer, agentVars>>

VisibilityInit ==
  /\ ClientInit
  /\ IdleAgent
  /\ \E r \in Rosters : game = [roles |-> r]
  /\ timer = TRUE
  /\ last = NoView

VisibilityNext == \E playerIndex \in RosterSeats : Observe(playerIndex)

SpecVisibility == VisibilityInit /\ [][VisibilityNext]_vars

\* the seats of a view, and the seats of the roster that hold a role of rs
SeatsOf(visible) == {visible[k].playerId : k \in DOMAIN visible}
Holding(roles, rs) == {p \in RosterSeats : roles[p] \in rs}

\* the roster with the roles of Merlin and Morgana exchanged
MerlinMorganaSwapped(roles) ==
  [p \in RosterSeats |->
     CASE roles[p] = "merlin" -> "morgana"
       [] roles[p] = "morgana" -> "merlin"
       [] OTHER -> roles[p]]

\* C17: in a roster with Merlin and Morgana, Percival is shown exactly their
\* two seats, the two entries carry the same role label and the same reason,
\* and the view is the same when Merlin and Morgana exchange their seats.
C17_PercivalCannotTell ==
  (last.role = "percival" /\ Holding(game.roles, {"merlin"}) # {}
     /\ Holding(game.roles, {"morgana"}) # {})
    => /\ SeatsOf(last.visible) = Holding(game.roles, {"merlin", "morgana"})
       /\ Len(last.visible) = 2
       /\ last.visible[1].role = last.visible[2].role
       /\ last.visible[1].reason = last.visible[2].reason
       /\ last.visible =
            getVisiblePlayers(MerlinMorganaSwapped(game.roles), last.viewer,
                              "percival")

\* C18: Merlin is shown every seat of the evil team but Mordred's, and no
\* seat of the good team.
C18_MerlinSeesEvilButMordred ==
  last.role = "merlin"
    => SeatsOf(last.visible) =
         {p \in RosterSeats \ {last.viewer} :
            getTeamFromRole(game.roles[p]) = "spy" /\ game.roles[p] # "mordred"}

\* the isolated evil role of either rule set
IsolatedRoles == {"oberon", "intern"}

C1_ChatOnlyFromSpeaker ==
  (last.type \in ChatTypes /\ last.rel \in {"previous", "other"})
    => (~last.changed /\ ~last.chatted)

\* C3: an action that needs an authority (the leader's, the seat's own, the
\* mission member's, the assassin's) and comes from a connection that does
\* not hold it leaves the state unchanged.
C3_OnlyAuthorizedActionsApply == ~last.authorized => ~last.changed

\* C4: when the winner is set and the phase is terminal, no input changes
\* the winner or the phase.
C4_OutcomeIsFinal == last.wasOver => ~last.undone

\* C14: while a speaking turn is active, a turn-control action (pass, end
\* turn, start turn) from a connection that is not the current speaker's
\* leaves the speaker, the turn position and the remaining time unchanged.
C14_OnlySpeakerMovesTurn ==
  (last.type \in TurnControlTypes /\ last.rel \in {"previous", "other"})
    => ~last.changed

\* C13: a chat message accepted while a speaking turn is active is recorded
\* under the seat of the connection that sent it, and that seat is the
\* current speaker.
C13_ChatAttribution ==
  (last.type \in ChatTypes /\ last.chatted /\ last.rel # "no turn")
    => (~last.misattributed /\ last.rel = "speaker")

\* C30: while a speaking turn is active, the seat of its current speaker
\* has a connection (a player's socket or an agent's): a seat whose
\* connection is gone is not the current speaker.
C30_SpeakerIsConnected ==
  game.speakingTurn # NoTurn => Connected(game, game.speakingTurn.currentSpeaker)

\* C21: every input that changed the state of the session (an action of a
\* connection, a tick, a connection leaving or coming back) has been routed
\* to the agents with the state that resulted, so the state the agents hold
\* is the session's.
C21_EveryInputForwarded == last.changed => last.forwarded

(***************************************************************************)
(* LLMAIAgent (backend/src/llmAIAgent.ts), for the seat AgentSeat.  Every  *)
(* change of the store is routed to the agent, so its gameState is the     *)
(* store's state.                                                          *)
(***************************************************************************)
DecisionKinds == {"chat", "team", "vote", "mission", "assassin"}
\* what an answer of the model, or a draw of Math.random(), comes to
Picks == {"a", "b"}

\* a handleAction invocation: the decision it is about, where it stands, the
\* ticks its sleep still lasts, the phase instance and the speaking turn
\* that triggered it and whether the agent was in fallback-only mode when it
\* called the client
FreeTask ==
  [kind |-> "none", st |-> "free", wake |-> 0, inst |-> -1, turn |-> -1,
   fo |-> FALSE]
\* how the last decision ended; same: the session was still in the phase
\* instance and turn that triggered it; pending: and still waited for it
NoDecision ==
  [kind |-> "none", outcome |-> "none", errors |-> 0, actions |-> 0,
   called |-> FALSE, posts |-> 0, fallbackOnly |-> FALSE, same |-> FALSE,
   pending |-> FALSE]

\* the variables a handler touches, as one record
World ==
  [game |-> game, agent |-> agent, tasks |-> tasks, calls |-> calls,
   lastDone |-> lastDone, lastDecision |-> lastDecision, emitted |-> emitted,
   requestHistory |-> requestHistory, dailyRequestCount |-> dailyRequestCount,
   dailyTokenCount |-> dailyTokenCount]

Apply(w) ==
  /\ game' = w.game
  /\ agent' = w.agent
  /\ tasks' = w.tasks
  /\ calls' = w.calls
  /\ lastDone' = w.lastDone
  /\ lastDecision' = w.lastDecision
  /\ emitted' = w.emitted
  /\ requestHistory' = w.requestHistory
  /\ dailyRequestCount' = w.dailyRequestCount
  /\ dailyTokenCount' = w.dailyTokenCount

\* this.socket.emit('action', a): the mock socket calls Game.onAction
Emit(w, a) == [w EXCEPT !.game = onAction(@, AgentSocket, a)]

RECURSIVE EmitAll(_, _)
EmitAll(w, as) ==
  IF as = <<>> THEN w ELSE EmitAll(Emit(w, Head(as)), Tail(as))

\* slot i emits its decision: counted when the phase instance that triggered
\* it is still the current one
Logged(w, i) ==
  LET t == w.tasks[i] IN
  IF t.inst # w.game.inst THEN w
  ELSE [w EXCEPT !.emitted =
          IF @.inst = t.inst /\ @.kind = t.kind
            THEN [@ EXCEPT !.count = @ + 1]
            ELSE [inst |-> t.inst, kind |-> t.kind, count |-> 1,
                  said |-> @.said]]

\* slot i emits n chat messages: said counts the messages of the decisions
\* that handleAction started for one speaking turn of the agent
Said(w, i, n) ==
  LET t == w.tasks[i] IN
  IF t.kind # "chat" THEN w
  ELSE [w EXCEPT !.emitted.said =
          IF @.inst = t.inst /\ @.turn = t.turn
            THEN [@ EXCEPT !.count = @ + n]
            ELSE [inst |-> t.inst, turn |-> t.turn, count |-> n]]

\* missionSizes[missionNumber] || 2
requiredSize(missionNo) ==
  CASE missionNo = 1 -> 2
    [] missionNo \in {2, 3} -> 3
    [] missionNo \in {4, 5} -> 4
    [] OTHER -> 2

\* getFallbackTeamProposal: available.slice(0, requiredSize)
getFallbackTeamProposal(size) == {p \in Seats : p < size}
\* a team of the size asked for, as the model names it
ModelTeam(size) == {p \in Seats : p >= NumSeats - size}

\* the seats handleAssassination and getFallbackAssassinationTarget offer
GoodSeats ==
  {p \in Seats : RoleOf(p) \in {"merlin", "agent", "loyal_servant", "percival", "deputy"}}
NthGood(n) ==
  CHOOSE p \in GoodSeats : Cardinality({q \in GoodSeats : q < p}) = n
PickedTarget(pick) ==
  IF GoodSeats = {} THEN 0
  ELSE IF pick = "b" /\ Cardinality(GoodSeats) > 1 THEN NthGood(1)
  ELSE NthGood(0)

\* this.team === 'spy', the team being getTeamFromRole of the seat's role
canFail == getTeamFromRole(RoleOf(AgentSeat)) = "spy"

\* Math.random(), in tenths
RandomTenths == 0..9

\* getFallbackMissionVote: Math.random() > 0.6 ? 'fail' : 'success'
getFallbackMissionVote(mayFail, random) ==
  IF ~mayFail THEN "success" ELSE IF random > 6 THEN "fail" ELSE "success"

\* a mission action that follows the model's answer whatever the team
missionVoteAsAnswered(mayFail, saysFail) ==
  IF saysFail THEN "fail" ELSE "success"

\* handleMissionVote after the model answered: 'success', and for a seat
\* that can fail, voteText.includes('FAIL') ? 'fail' : 'success'
missionVoteFromModel(mayFail, saysFail) ==
  IF mayFail /\ saysFail THEN "fail" ELSE "success"

ChatAction == Act("game/new-player-chat-message", AgentSeat, NoMembers, "none")
TeamActions(members) ==
  <<Act("game/update-team-members", NoSeat, members, "none"),
    Act("game/finish-team-building", NoSeat, NoMembers, "none")>>
VoteAction(v) == Act("game/send-proposal-vote", AgentSeat, NoMembers, v)
MissionAction(v) == Act("game/send-mission-action", AgentSeat, NoMembers, v)
AssassinActions(p) ==
  <<Act("game/update-assassin-choice", p, NoMembers, "none"),
    Act("game/finish-assassin-choice", NoSeat, NoMembers, "none")>>

\* what the catch blocks and the fallback-only branches emit
FallbackActions(kind, g, pick) ==
  CASE kind = "chat" -> <<ChatAction>>
    [] kind = "team" ->
         TeamActions(getFallbackTeamProposal(IF g.missionNo = 1 THEN 2 ELSE 3))
    [] kind = "vote" -> <<VoteAction(IF pick = "a" THEN "accept" ELSE "reject")>>
    [] kind = "mission" ->
         <<MissionAction(getFallbackMissionVote(canFail,
                                                IF pick = "b" THEN 9 ELSE 0))>>
    [] kind = "assassin" -> AssassinActions(PickedTarget(pick))

\* what the handlers emit for the content the model returned
ModelActions(kind, g, content) ==
  CASE kind = "chat" -> <<ChatAction>>
    [] kind = "team" ->
         TeamActions(IF content = "a" THEN ModelTeam(requiredSize(g.missionNo))
                     ELSE getFallbackTeamProposal(requiredSize(g.missionNo)))
    [] kind = "vote" -> <<VoteAction(IF content = "a" THEN "accept" ELSE "reject")>>
    [] kind = "mission" ->
         <<MissionAction(missionVoteFromModel(canFail, content = "b"))>>
    [] kind = "assassin" -> AssassinActions(PickedTarget(content))

(***************************************************************************)
(* handleTeamBuilding as a function of the session's size, the mission     *)
(* number and the content the model returned.  Here game is the session    *)
(* (players, mission) and last is the proposal the agent emitted.          *)
(***************************************************************************)
\* the numbers a response names: seats of every session and one that is a
\* seat of none
NamedIndices == {0, 1, 2, GameMaxPlayers}
NumberLists == UNION {[1..len -> NamedIndices] : len \in 0..MaxNamed}
\* a response holds a JSON array of numbers, text that matches the array
\* pattern and does not parse ("[1,,2]"), or numbers and no array
TeamContents ==
  [kind : {"array", "numbers"}, nums : NumberLists]
    \cup {[kind |-> "unparsable", nums |-> <<>>]}

\* getFallbackTeamProposal for a session of n players, as the list it is
fallbackTeam(n, size) == [k \in 1..(IF size < n THEN size ELSE n) |-> k - 1]

\* the parse of the response: teamIndices
teamIndices(n, content, size) ==
  CASE content.kind = "array" -> content.nums
    [] content.kind = "unparsable" -> fallbackTeam(n, size)
    [] OTHER -> IF Len(content.nums) >= size
                  THEN SubSeq(content.nums, 1, size) ELSE <<>>

\* the members handleTeamBuilding emits after the model answered
membersFromModel(n, m, content) ==
  LET size == requiredSize(m)
      team == teamIndices(n, content, size) IN
  IF Len(team) = size /\ \A k \in 1..Len(team) : team[k] >= 0 /\ team[k] < n
    THEN team
    ELSE fallbackTeam(n, size)

\* the members it emits in fallback-only mode and in its catch block
membersFromFallback(n, m) == fallbackTeam(n, IF m = 1 THEN 2 ELSE 3)

NoProposal == [path |-> "none", members |-> <<>>]

ProposeFromModel(content) ==
  /\ last' = [path |-> "llm",
              members |-> membersFromModel(game.players, game.mission, content)]
  /\ UNCHANGED <<clientVars, game, timer, agentVars>>

ProposeFallback ==
  /\ last' = [path |-> "fallback",
              members |-> membersFromFallback(game.players, game.mission)]
  /\ UNCHANGED <<clientVars, game, timer, agentVars>>

TeamInit ==
  /\ ClientInit
  /\ \E n \in PlayerCounts, m \in MissionNumbers :
       game = [players |-> n, mission |-> m]
  /\ timer = FALSE
  /\ last = NoProposal
  /\ agent = [errorCount |-> 0]
  /\ tasks = <<>>
  /\ lastDecision = [kind |-> "none"]
  /\ emitted = [count |-> 0]

TeamNext ==
  \/ \E content \in TeamContents : ProposeFromModel(content)
  \/ ProposeFallback

SpecTeam == TeamInit /\ [][TeamNext]_vars

\* C27: the team the agent proposes, from the model's answer or from the
\* fallback, has exactly the size the session requires for the mission and
\* the number of players, and its members are distinct seats of the session.
C27_ProposedTeamIsValid ==
  last.path # "none"
    => /\ Len(last.members) = MissionTeamSize(game.players, game.mission)
       /\ \A k \in 1..Len(last.members) :
            last.members[k] \in 0..(game.players - 1)
       /\ \A j, k \in 1..Len(last.members) :
            j # k => last.members[j] # last.members[k]

(***************************************************************************)
(* handleMissionVote as a function of the seat's role, the model's answer  *)
(* and the draw of the fallback.  Here game is the role the agent was      *)
(* initialised with and last is the mission action it emitted.             *)
(***************************************************************************)
NoMissionVote == [path |-> "none", saysFail |-> FALSE, random |-> 0, action |-> "none"]

VoteFromModel(saysFail) ==
  /\ last' = [path |-> "llm", saysFail |-> saysFail, random |-> 0,
              action |-> missionVoteFromModel(getTeamFromRole(game.role) = "spy",
                                              saysFail)]
  /\ UNCHANGED <<clientVars, game, timer, agentVars>>

VoteFromFallback(random) ==
  /\ last' = [path |-> "fallback", saysFail |-> FALSE, random |-> random,
              action |-> getFallbackMissionVote(getTeamFromRole(game.role) = "spy",
                                                random)]
  /\ UNCHANGED <<clientVars, game, timer, agentVars>>

MissionVoteInit ==
  /\ ClientInit
  /\ \E role \in AvalonRoles \cup ResistanceRoles : game = [role |-> role]
  /\ timer = FALSE
  /\ last = NoMissionVote
  /\ agent = [errorCount |-> 0]
  /\ tasks = <<>>
  /\ lastDecision = [kind |-> "none"]
  /\ emitted = [count |-> 0]

MissionVoteNext ==
  \/ \E saysFail \in BOOLEAN : VoteFromModel(saysFail)
  \/ \E random \in RandomTenths : VoteFromFallback(random)

SpecMissionVote == MissionVoteInit /\ [][MissionVoteNext]_vars

\* the roles of team Good (types.ts)
GoodRoles ==
  {"agent", "captain", "deputy", "merlin", "percival", "loyal_servant"}

\* C28: an agent whose role is good never emits the mission action fail,
\* whatever the model answered and whatever the fallback drew.
C28_GoodAgentNeverFails ==
  (game.role \in GoodRoles /\ last.path # "none") => last.action = "success"

\* Merlin's agent was answered FAIL by the model and emitted success
C28_Witness ==
  /\ game.role = "merlin"
  /\ last.path = "llm"
  /\ last.saysFail
  /\ last.action = "success"

\* a success that clears the whole error state, the flag included
ChatSucceededResetsAll(a) == [a EXCEPT !.errorCount = 0, !.useFallbackOnly = FALSE]

\* generateChatResponse after a successful call: this.errorCount = 0
ChatSucceeded(a) == [a EXCEPT !.errorCount = 0]

\* an error counted both where it is thrown and where it is caught
handleErrorTwice(a) ==
  LET n == a.errorCount + 2 IN
  [a EXCEPT !.errorCount = n,
            !.useFallbackOnly = IF n >= MaxErrors THEN TRUE ELSE @]

\* handleError: errorCount++, and the switch to the fallback at maxErrors
handleError(a) ==
  LET n == a.errorCount + 1 IN
  [a EXCEPT !.errorCount = n,
            !.useFallbackOnly = IF n >= MaxErrors THEN TRUE ELSE @]

\* the session is in the phase instance, and the speaking turn, in which
\* handleAction started the invocation t
SamePhaseAndTurn(t, g) ==
  /\ t.inst = g.inst
  /\ t.kind = "chat" =>
       /\ g.speakingTurn # NoTurn
       /\ g.speakingTurn.currentSpeaker = AgentSeat
       /\ g.speakingTurn.turnIndex = t.turn

\* the condition under which handleAction started the invocation t holds
\* as it did then: the session still waits for the agent's decision
StillPending(t, g) ==
  /\ SamePhaseAndTurn(t, g)
  /\ CASE t.kind = "chat" -> TRUE
        [] t.kind = "team" ->
             g.phase = "team-building" /\ g.team.leader = AgentSeat
               /\ g.team.members = {}
        [] t.kind = "vote" ->
             g.phase = "voting" /\ g.team.votes[AgentSeat] = "none"
        [] t.kind = "mission" ->
             g.phase = "mission" /\ AgentSeat \in g.mission.members
               /\ g.mission.actions[AgentSeat] = "none"
        [] t.kind = "assassin" ->
             g.phase = "finished-assassinate" /\ g.assassinChoice = NoSeat
        [] OTHER -> FALSE

\* the decision of slot i is over: w0 before its last step, w1 after the
\* handler's bookkeeping, as the actions it emits.  failedInARow follows the
\* run: the decisions that failed since the last one the model answered.
Decided(w0, w1, i, outcome, as, called, posts) ==
  LET kind == w0.tasks[i].kind
      w2 == IF as = <<>> THEN w1
            ELSE EmitAll(Said(Logged(w1, i), i, Len(as)), as) IN
  [w2 EXCEPT !.tasks[i] = FreeTask,
             !.agent.failedInARow =
               IF outcome = "fallback" THEN @ + 1 ELSE IF called THEN 0 ELSE @,
             !.lastDecision =
               [kind |-> kind, outcome |-> outcome,
                errors |-> w1.agent.errorCount - w0.agent.errorCount,
                actions |-> Len(as), called |-> called, posts |-> posts,
                fallbackOnly |-> w0.tasks[i].fo,
                same |-> SamePhaseAndTurn(w0.tasks[i], w0.game),
                pending |-> StillPending(w0.tasks[i], w0.game)]]

\* a catch block that counts the error and emits nothing
FailedSilently(w, i, pick, posts) ==
  Decided(w, [w EXCEPT !.agent = handleError(@)], i, "fallback",
          <<>>, TRUE, posts)

\* the catch block of a handler
Failed(w, i, pick, posts) ==
  Decided(w, [w EXCEPT !.agent = handleError(@)], i, "fallback",
          FallbackActions(w.tasks[i].kind, w.game, pick), TRUE, posts)

NotOurTurn(g) ==
  g.speakingTurn # NoTurn /\ g.speakingTurn.currentSpeaker # AgentSeat

\* the handler after makeRequest returned content
Succeeded(w, i, content, posts) ==
  LET kind == w.tasks[i].kind IN
  IF kind = "chat"
    THEN LET w1 == [w EXCEPT !.agent = ChatSucceeded(@)] IN
         IF NotOurTurn(w.game)
           THEN Decided(w, w1, i, "dropped", <<>>, TRUE, posts)
           ELSE Decided(w, w1, i, "llm", <<ChatAction>>, TRUE, posts)
    ELSE Decided(w, w, i, "llm", ModelActions(kind, w.game, content), TRUE, posts)

\* await this.llmClient.makeRequest(...): refused by the quota, or posted
StartCall(w, i, pick) ==
  LET c == CallStarted(IdleCall, w.requestHistory, w.dailyRequestCount,
                       w.dailyTokenCount, now)
      w1 == [w EXCEPT !.tasks[i].fo = w.agent.useFallbackOnly] IN
  IF IsDone(c)
    THEN Failed(w1, i, pick, 0)
    ELSE [w1 EXCEPT !.calls[i] = c, !.tasks[i].st = "call"]

\* the handler of slot i's decision, from the end of its sleep to its first
\* await
Begin(w, i, pick) ==
  LET kind == w.tasks[i].kind
      g == w.game
      fallbackOnly ==
        Decided(w, w, i, "fallback-only", FallbackActions(kind, g, pick), FALSE, 0)
      dropped == Decided(w, w, i, "dropped", <<>>, FALSE, 0) IN
  CASE kind = "chat" ->
         IF NotOurTurn(g) THEN dropped
         ELSE IF w.agent.useFallbackOnly THEN fallbackOnly
         ELSE StartCall(w, i, pick)
    [] kind = "team" ->
         IF w.agent.useFallbackOnly THEN fallbackOnly ELSE StartCall(w, i, pick)
    [] kind = "vote" ->
         IF g.phase # "voting" THEN dropped ELSE StartCall(w, i, pick)
    [] kind = "mission" ->
         IF g.phase # "mission" \/ AgentSeat \notin g.mission.members THEN dropped
         ELSE StartCall(w, i, pick)
    [] kind = "assassin" -> StartCall(w, i, pick)

\* a handleAction that starts a chat decision at every tick of the agent's turn
TriggeredAtEveryTick(g, a) ==
  IF g.speakingTurn # NoTurn /\ g.speakingTurn.currentSpeaker = AgentSeat
    THEN "chat"
  ELSE IF g.phase = "team-building"
    THEN IF g.team.leader = AgentSeat /\ g.team.members = {} THEN "team"
         ELSE "none"
  ELSE IF g.phase = "voting"
    THEN IF g.team.votes[AgentSeat] = "none" THEN "vote" ELSE "none"
  ELSE IF g.phase = "mission"
    THEN IF AgentSeat \in g.mission.members
            /\ g.mission.actions[AgentSeat] = "none" THEN "mission"
         ELSE "none"
  ELSE IF g.phase = "finished-assassinate"
    THEN IF RoleOf(AgentSeat) = "assassin" /\ g.assassinChoice = NoSeat
           THEN "assassin"
         ELSE "none"
  ELSE "none"

\* handleAction('game/tick'): the decision the agent starts, if any
Triggered(g, a) ==
  IF g.speakingTurn # NoTurn /\ g.speakingTurn.currentSpeaker = AgentSeat
    THEN IF a.lastSpeakingTurnIndex # g.speakingTurn.turnIndex THEN "chat"
         ELSE "none"
  ELSE IF g.phase = "team-building"
    THEN IF g.team.leader = AgentSeat /\ g.team.members = {} THEN "team"
         ELSE "none"
  ELSE IF g.phase = "voting"
    THEN IF g.team.votes[AgentSeat] = "none" THEN "vote" ELSE "none"
  ELSE IF g.phase = "mission"
    THEN IF AgentSeat \in g.mission.members
            /\ g.mission.actions[AgentSeat] = "none" THEN "mission"
         ELSE "none"
  ELSE IF g.phase = "finished-assassinate"
    THEN IF RoleOf(AgentSeat) = "assassin" /\ g.assassinChoice = NoSeat
           THEN "assassin"
         ELSE "none"
  ELSE "none"

\* the sleep before the handler, in ticks
DelayOf(kind, g) ==
  CASE kind = "chat" ->
         IF g.speakingTurn.timeRemaining > ChatLead
           THEN g.speakingTurn.timeRemaining - ChatLead ELSE 0
    [] kind = "assassin" -> ResponseDelay * 2
    [] OTHER -> ResponseDelay

\* the timers a tick brings nearer
Slept(ts) ==
  [i \in Calls |-> IF ts[i].st = "sleep" /\ ts[i].wake > 0
                     THEN [ts[i] EXCEPT !.wake = @ - 1] ELSE ts[i]]

\* no sleep of the agent has run out: its continuation runs before the
\* next second's tick
NoSleepOver == \A i \in Calls : ~(tasks[i].st = "sleep" /\ tasks[i].wake = 0)

\* an interval that fires only when no call of the agent is in flight
TickDueWhenIdle ==
  /\ timer
  /\ NoSleepOver
  /\ \A i \in Calls : tasks[i].st # "call"

\* setInterval(() => this.tick(io), 1000) fires while the session runs
TickDue ==
  /\ timer
  /\ NoSleepOver

\* Game.tick with the agent routed to: the store ticks, then handleAction
\* runs up to its first await.  A sleep that is over ends before the next
\* tick: its timer is due earlier than the interval's.
AgentTickOn(slots) ==
  /\ TickDue
  /\ LET g1 == tick(game)
         w1 == [World EXCEPT !.game = g1, !.tasks = Slept(tasks),
                             !.lastDecision = NoDecision]
         kind == Triggered(g1, agent)
         free == {i \in slots : w1.tasks[i].st = "free"} IN
       /\ timer' = (g1.phase # "finished")
       /\ IF kind = "none" \/ free = {} THEN Apply(w1)
          ELSE LET i == CHOOSE j \in free : \A k \in free : j <= k
                   w2 == [w1 EXCEPT
                            !.tasks[i] = [kind |-> kind, st |-> "sleep",
                                          wake |-> DelayOf(kind, g1),
                                          inst |-> g1.inst,
                                          turn |->
                                            IF kind = "chat"
                                              THEN g1.speakingTurn.turnIndex
                                              ELSE -1,
                                          fo |-> FALSE],
                            !.agent.lastSpeakingTurnIndex =
                              IF kind = "chat" THEN g1.speakingTurn.turnIndex ELSE @] IN
               IF w2.tasks[i].wake = 0 THEN Apply(Begin(w2, i, "a")) ELSE Apply(w2)
  /\ UNCHANGED <<now, callsStarted, last>>

\* every tick reaches handleAction, whatever is in flight
AgentTick == AgentTickOn(Calls)

\* the sleep of slot i is over: the handler runs up to its call.  Once the
\* session stopped its ticks the timers that are left still fire.
SleepDone(i, pick) ==
  /\ tasks[i].st = "sleep"
  /\ tasks[i].wake = 0 \/ ~timer
  /\ Apply(Begin(World, i, pick))
  /\ UNCHANGED <<now, callsStarted, last, timer>>

\* the endpoint answers the axios.post of slot i's call; the handler that
\* awaits the call goes on when the call returns or throws
AgentHttpRespond(i, r, pick) ==
  /\ tasks[i].st = "call"
  /\ calls[i].st = "http"
  /\ LET c == CallAnswered(calls[i], r)
         w1 == [World EXCEPT
                  !.calls[i] = IF IsDone(c) THEN IdleCall ELSE c,
                  !.requestHistory =
                    IF r = "ok" THEN HistoryAfterSuccess(@, now) ELSE @,
                  !.dailyRequestCount = IF r = "ok" THEN @ + 1 ELSE @,
                  !.dailyTokenCount = IF r = "ok" THEN @ + ResponseTokens ELSE @] IN
       IF c.st = "ok" THEN Apply(Succeeded(w1, i, pick, c.posts))
       ELSE IF c.st = "error" THEN Apply(Failed(w1, i, pick, c.posts))
       ELSE Apply(w1)
  /\ UNCHANGED <<now, callsStarted, last, timer>>

AgentBackoffDone(i) ==
  /\ tasks[i].st = "call"
  /\ calls[i].st = "sleep"
  /\ calls' = [calls EXCEPT ![i].st = "http",
                            ![i].attempt = calls[i].attempt + 1,
                            ![i].posts = calls[i].posts + 1]
  /\ UNCHANGED <<now, requestHistory, dailyRequestCount, dailyTokenCount, lastDone,
                 callsStarted, gameVars, agentVars>>

\* what the endpoint answers the agent's calls: a success, a failure that is
\* retried and one that is not
AgentResponses == {"ok", "429", "401"}

AgentInit ==
  /\ ClientInit
  /\ game = InitGame
  /\ timer = TRUE
  /\ last = NoInput
  /\ agent = [errorCount |-> 0, useFallbackOnly |-> FALSE,
              lastSpeakingTurnIndex |-> -1, failedInARow |-> 0]
  /\ tasks = [i \in Calls |-> FreeTask]
  /\ lastDecision = NoDecision
  /\ emitted = [inst |-> -1, kind |-> "none", count |-> 0,
                said |-> [inst |-> -1, turn |-> -1, count |-> 0]]

AgentNext ==
  \/ AgentTick
  \/ \E i \in Calls, pick \in Picks : SleepDone(i, pick)
  \/ \E i \in Calls, r \in AgentResponses, pick \in Picks :
       AgentHttpRespond(i, r, pick)
  \/ \E i \in Calls : AgentBackoffDone(i)

SpecAgent == AgentInit /\ [][AgentNext]_vars

\* The agent one decision at a time: a tick that finds a decision in flight
\* starts no other.
FirstSlot == {i \in Calls : \A j \in Calls : i <= j}

SerialTick == AgentTickOn(FirstSlot)

SerialNext ==
  \/ SerialTick
  \/ \E i \in FirstSlot, pick \in Picks : SleepDone(i, pick)
  \/ \E i \in FirstSlot, r \in AgentResponses, pick \in Picks :
       AgentHttpRespond(i, r, pick)
  \/ \E i \in FirstSlot : AgentBackoffDone(i)

\* the interval of the ticks keeps firing (setInterval), a sleep ends
\* (setTimeout), the endpoint answers or axios' timeout does, a backoff ends
AgentFairness ==
  /\ WF_vars(SerialTick)
  /\ \A i \in FirstSlot :
       /\ WF_vars(\E pick \in Picks : SleepDone(i, pick))
       /\ WF_vars(\E r \in AgentResponses, pick \in Picks :
                    AgentHttpRespond(i, r, pick))
       /\ WF_vars(AgentBackoffDone(i))

SpecAgentFair == AgentInit /\ [][SerialNext]_vars /\ AgentFairness

\* The session with the agent and a player: the actions the player's seat
\* sends for itself
PlayerActions ==
  {Act("game/new-player-chat-message", HumanSeat, NoMembers, "none"),
   Act("game/pass-speaking-turn", NoSeat, NoMembers, "none")}
  \cup {Act("game/send-proposal-vote", HumanSeat, NoMembers, v) :
          v \in {"accept", "reject"}}
  \cup {Act("game/send-mission-action", HumanSeat, NoMembers, v) :
          v \in {"success", "fail"}}

PlayerAction(a) == ClientAction(SocketOf(HumanSeat), a)

SessionNext ==
  \/ SerialNext
  \/ \E a \in PlayerActions : PlayerAction(a)

SpecSession == AgentInit /\ [][SessionNext]_vars

\* the session has a speaking turn of the agent's seat, and a tick of that
\* turn reached handleAction
AgentSpeaksAndWasTicked ==
  /\ timer
  /\ game.speakingTurn # NoTurn
  /\ game.speakingTurn.currentSpeaker = AgentSeat
  /\ game.speakingTurn.timeRemaining < TurnSeconds

\* every slot of the agent is free
AgentIdle == \A i \in Calls : tasks[i].st = "free"

(***************************************************************************)
(* Properties of the inference client                                      *)
(***************************************************************************)
\* the successes recorded in the window of Window seconds that starts at t
SuccessesFrom(t) ==
  Cardinality({k \in 1..Len(requestHistory) :
                 requestHistory[k] >= t /\ requestHistory[k] - t < Window})

\* C5: no rolling window of 60 seconds holds more than requestsPerMinute
\* successful calls: once requestsPerMinute calls succeeded in a window, the
\* next one is refused for the quota.
C5_AtMostRPerWindow ==
  \A k \in 1..Len(requestHistory) :
    SuccessesFrom(requestHistory[k]) <= RequestsPerMinute

C7_NoRetryOfFatalResponse ==
  \A i \in Calls :
    calls[i].resp \in {"401", "403", "404", "malformed"}
      => calls[i].st \notin {"sleep", "http"}

(***************************************************************************)
(* Properties of the agent                                                 *)
(***************************************************************************)
\* C2: in one phase instance the agent emits at most one decision (team
\* proposal, team vote, mission action, assassination) for its seat.
C2_OneDecisionPerPhaseInstance ==
  emitted.kind \in {"team", "vote", "mission", "assassin"} => emitted.count <= 1

\* C8: once the agent is in fallback-only mode it starts no inference call,
\* whatever the decision.
C8_NoCallInFallbackOnly ==
  /\ ~(lastDecision.called /\ lastDecision.fallbackOnly)
  /\ \A i \in Calls : tasks[i].st = "call" => ~tasks[i].fo

\* C9: the fallback-only flag, once set, stays set.
C9_FallbackOnlyIsPermanent ==
  [][agent.useFallbackOnly => agent'.useFallbackOnly]_vars

\* the flag is set, and a decision made under it got an answer of the model
C9_Witness ==
  /\ agent.useFallbackOnly
  /\ lastDecision.fallbackOnly
  /\ lastDecision.outcome = "llm"

C12_NoStaleEmission ==
  lastDecision.actions > 0 => lastDecision.same

\* C23: the agent is in fallback-only mode only when its last maxErrors
\* decisions in a row failed: a decision of any type that the model answered
\* in between starts the count again.
C23_FallbackOnlyAfterRunOfFailures ==
  agent.useFallbackOnly => agent.failedInARow >= MaxErrors

\* C25: a call whose request got no response (a timeout) fails only after
\* it has retried up to the retry limit.
C25_TimeoutIsRetried ==
  (lastDone.st = "error" /\ lastDone.resp = "noresponse")
    => lastDone.posts = MaxRetries

\* an inference call of the agent is awaiting the endpoint's answer
CallInFlight ==
  \E i \in Calls : tasks[i].st = "call" /\ calls[i].st \in {"http", "sleep"}

\* C20: while a call of the agent is in flight the session's tick is not
\* held back, and the action a player sends is applied at once; the call's
\* step is never awaited by either.
C20_StateMachineNeverWaits ==
  (CallInFlight /\ timer /\ NoSleepOver)
    => /\ ENABLED SerialTick
       /\ \A a \in PlayerActions :
            (a.type \in ChatTypes => Len(game.chat) < MaxChat)
              => ENABLED PlayerAction(a)

\* a call is in flight, the phase it was started in is over, and the vote of
\* the player has just been applied
C20_Witness ==
  /\ \E i \in Calls : /\ tasks[i].st = "call"
                       /\ calls[i].st = "http"
                       /\ tasks[i].inst < game.inst
  /\ last.type = "game/send-proposal-vote"
  /\ last.changed

\* C33: whenever the agent's seat holds the speaking turn and a tick of that
\* turn has reached the agent, a chat decision of the agent is under way (the
\* message it emits ends the turn): also in a later turn that has the same
\* position in the turn order as one the agent spoke in
C33_EverySpeakingTurnStartsChat ==
  AgentSpeaksAndWasTicked => ~AgentIdle

\* C36: the chat decisions started for one speaking turn of the agent emit
\* one message at most between them, whatever the number of ticks of the
\* turn and whether the message is the model's or the fallback's
C36_OneMessagePerTurn == emitted.said.count <= 1

\* a turn of the agent that several ticks reached and that ended with the
\* fallback's message, after the call failed
C36_Witness ==
  /\ emitted.said.count = 1
  /\ lastDecision.kind = "chat"
  /\ lastDecision.outcome = "fallback"
  /\ lastDecision.actions = 1
  /\ lastDecision.posts >= 2

====
